---- MODULE Spec2Model ----
(***************************************************************************)
(* State-machine model of the WAL broadcast proxy                          *)
(* (src/bin/safekeeper/safekeeper_proxy.c) and of the helpers it uses from *)
(* src/bin/safekeeper/utils.c.                                             *)
(*                                                                         *)
(* One action is one handler of the event loop of BroadcastWalStream: the  *)
(* work done for one ready descriptor, with every call it makes.  The      *)
(* safekeepers and the primary are the environment: what they send is      *)
(* chosen by the actions' \E, within the bounds below.  The safekeepers    *)
(* are honest: each reports the position up to which it was sent WAL, and  *)
(* echoes the larger of its own NodeId and the one proposed to it.         *)
(*                                                                         *)
(* safekeeper.h is not among the sources.  The sizes of its structures are *)
(* taken from their uses: XLOG_HDR_SIZE from the header walsender.c        *)
(* builds, NodeId as a 64-bit term and a 16-byte uuid.  Integers are       *)
(* stored least significant byte first, as on the x86-64 builds of the     *)
(* program; the handshake record is stored when its last byte arrives.     *)
(*                                                                         *)
(* Undefined behaviour is a choice among its outcomes: the automatic       *)
(* variable maxNodeId starts with any of UninitNodeIds, and a dereference  *)
(* of safekeeper[i].currMsg, which no statement assigns, is any of Deref.  *)
(* The file compiles only with assertions disabled (its Assert at line 526 *)
(* names an undeclared array), so no Assert is modelled.                   *)
(*                                                                         *)
(* The WAL sender thread of src/bin/safekeeper/walsender.c is modelled in  *)
(* a specification of its own, SenderSpec: one action per stretch of       *)
(* WalSenderMain between two places where NotifyWalSenders or              *)
(* StopWalSenders of another thread can take effect.  There every WAL      *)
(* position is counted in units of 64 KiB, so that the 32 bits of          *)
(* `(uint32)(flushLsn - startpos)` are 65536 units.                        *)
(***************************************************************************)
EXTENDS Integers, Sequences, FiniteSets, TLC

----------------------------------------------------------------------------
(* Bounds of the model                                                     *)

\* largest number of safekeepers given on the command line
MaxSafekeepers == 3
\* number of 'w' records the primary streams before the stream ends
MaxMsgs == 2
\* size of a run: the number of safekeepers plus the number of irregular
\* events (I/O errors, refused connections, a peer closing its connection,
\* another proposer, transfers cut short after some bytes) is at most this
MaxScenario == 3
\* a partial transfer stops at an offset of at most MaxCut bytes
MaxCut == 1
\* largest term a safekeeper has stored before the proxy starts (the last
\* safekeeper of the list holds any term up to it, the others term 0)
MaxTerm == 2
\* descriptors available to the process (RLIMIT_NOFILE)
MaxFds == 7

----------------------------------------------------------------------------
(* Program constants                                                       *)

PGINVALID_SOCKET == -1
\* 'w' + dataStart + walEnd + sendTime, as walsender.c writes them
XLOG_HDR_SIZE == 25
SK_PROTOCOL_VERSION == 1
\* sizeof(NodeId): uint64 term + 16 bytes of uuid
SizeofNodeId == 24
\* sizeof(XLogRecPtr)
SizeofLsn == 8
\* sizeof(safekeeper[i].info); only its being more than MaxCut matters
SizeofSafekeeperInfo == 64
\* descriptor of the connection to the primary, PQsocket(conn)
ServerFd == 3
\* payload bytes of one streamed record
BodySize == 8

\* inputs of the run: segment size and the primary's position reported by
\* IDENTIFY_SYSTEM, the positions safekeepers start with
WalSegSizes == {16}
ServerWalEnds == {250}
InitLsns == {0}

\* uuid of a proposer other than this proxy
ForeignUuids == {8}

\* NodeIds an uninitialised automatic variable may hold
UninitNodeIds == {[term |-> 0, uuid |-> 0], [term |-> 1, uuid |-> 9]}

Max(a, b) == IF a >= b THEN a ELSE b

----------------------------------------------------------------------------
VARIABLES
    n_safekeepers,  \* number of safekeepers
    quorum,         \* -q
    serverInfo,     \* [walEnd, walSegSize, protocolVersion]
    state,          \* safekeeper[i].state
    sock,           \* safekeeper[i].sock
    asyncOffs,      \* safekeeper[i].asyncOffs
    ackPos,         \* safekeeper[i].ackPos
    info,           \* safekeeper[i].info.server.nodeId
    currMsg,        \* safekeeper[i].currMsg (0 is NULL)
    msgQueue,       \* msgQueueHead .. msgQueueTail
    lastAckPos,
    readSet,
    writeSet,
    maxFds,
    streaming,
    server,         \* local `server` of BroadcastWalStream
    n_votes,
    n_connected,
    maxNodeId,
    pc,             \* where the process is: init, loop, done, exit1, crash, hang
    \* the environment
    openFds,        \* descriptors open in the process
    skLsn,          \* position each safekeeper has flushed
    skNode,         \* NodeId each safekeeper has stored
    primaryPos,     \* position of the next record of the primary's stream
    nStreamed,      \* records streamed so far
    faults,         \* irregular events so far
    \* history
    fbLog,          \* LSNs sent to the primary as feedback
    proposals,      \* NodeIds sent to safekeepers as the proposed epoch
    handshaken,     \* safekeepers that completed a handshake
    startRepl,      \* START_REPLICATION commands issued: their start positions
    resetInSend,    \* safekeepers reset while part of a record was written to them
    handed,         \* per safekeeper, walPos of the record written to it and not
                    \* yet answered (0: none)
    probe,          \* result of the function applied by a function-level specification
    \* walsender.c: one WAL sender thread and the statics it shares
    walSender,      \* WalSender *ws: [walSegSize]
    request,        \* startpos as parsed from START_REPLICATION (or found on disk)
    startpos,
    flushLsn,       \* static flushLsn
    senderStreaming,\* static `streaming` of walsender.c
    walfile,        \* -1, or the descriptor: the number of the open segment
    filePos,        \* read position of the open file
    sendSize,
    senderPc,       \* where the thread is: none, wait, open, read, send, exited
    lastFrame,      \* history: the last frame written to the client
    \* walsender.c: the registry of WAL sender threads
    walSenders,     \* the L2-list: [next, prev], node 0 is &walSenders
    thread,         \* per WalSender: [pc, walfile, sock, why, frames, pos]
    stopper,        \* the caller of StopWalSenders: [pc, t]
    \* safekeeper_proxy.c: the message queue, pointer by pointer
    msgQueueHead,   \* address of the first WalMessage (0 is NULL)
    msgQueueTail,   \* address of the last WalMessage (0 is NULL)
    msgHeap         \* per address, the WalMessage stored there, or Unallocated

progVars == <<n_safekeepers, quorum, serverInfo, state, sock, asyncOffs, ackPos, info,
              currMsg, msgQueue, lastAckPos, readSet, writeSet, maxFds, streaming,
              server, n_votes, n_connected, maxNodeId, pc>>
envVars == <<openFds, skLsn, skNode, primaryPos, nStreamed, faults>>
histVars == <<fbLog, proposals, handshaken, startRepl, resetInSend, handed>>
senderVars == <<walSender, request, startpos, flushLsn, senderStreaming, walfile, filePos,
                sendSize, senderPc, lastFrame>>
registryVars == <<walSenders, thread, stopper>>
queueVars == <<msgQueueHead, msgQueueTail, msgHeap>>
vars == <<progVars, envVars, histVars, probe, senderVars, registryVars, queueVars>>

NoFrame == [dataStart |-> 0, len |-> 0, walEnd |-> 0, sent |-> FALSE]

\* the queue is followed pointer by pointer in QueueSpec only
NoQueue == msgQueueHead = 0 /\ msgQueueTail = 0 /\ msgHeap = <<>>

\* no registry of WAL senders
NoRegistry ==
    /\ walSenders = [next |-> <<>>, prev |-> <<>>]
    /\ thread = <<>>
    /\ stopper = [pc |-> "none", t |-> 0]

\* no WAL sender thread: the proxy is another program
NoSender ==
    /\ walSender = [walSegSize |-> 0]
    /\ request = 0 /\ startpos = 0 /\ flushLsn = 0
    /\ senderStreaming = FALSE
    /\ walfile = -1 /\ filePos = 0 /\ sendSize = 0
    /\ senderPc = "none"
    /\ lastFrame = NoFrame
    /\ NoRegistry

Peers == 0 .. (n_safekeepers - 1)

\* the whole state as one record, for the handlers written as functions
Cur ==
    [n_safekeepers |-> n_safekeepers, quorum |-> quorum, serverInfo |-> serverInfo,
     state |-> state, sock |-> sock, asyncOffs |-> asyncOffs, ackPos |-> ackPos,
     info |-> info, currMsg |-> currMsg, msgQueue |-> msgQueue,
     lastAckPos |-> lastAckPos, readSet |-> readSet, writeSet |-> writeSet,
     maxFds |-> maxFds, streaming |-> streaming, server |-> server,
     n_votes |-> n_votes, n_connected |-> n_connected, maxNodeId |-> maxNodeId,
     pc |-> pc, openFds |-> openFds, skLsn |-> skLsn, skNode |-> skNode,
     primaryPos |-> primaryPos, nStreamed |-> nStreamed, faults |-> faults,
     fbLog |-> fbLog, proposals |-> proposals, handshaken |-> handshaken,
     startRepl |-> startRepl, resetInSend |-> resetInSend, handed |-> handed]

Install(p) ==
    /\ n_safekeepers' = p.n_safekeepers /\ quorum' = p.quorum
    /\ serverInfo' = p.serverInfo
    /\ state' = p.state /\ sock' = p.sock /\ asyncOffs' = p.asyncOffs
    /\ ackPos' = p.ackPos /\ info' = p.info /\ currMsg' = p.currMsg
    /\ msgQueue' = p.msgQueue /\ lastAckPos' = p.lastAckPos
    /\ readSet' = p.readSet /\ writeSet' = p.writeSet /\ maxFds' = p.maxFds
    /\ streaming' = p.streaming /\ server' = p.server
    /\ n_votes' = p.n_votes /\ n_connected' = p.n_connected
    /\ maxNodeId' = p.maxNodeId /\ pc' = p.pc
    /\ openFds' = p.openFds /\ skLsn' = p.skLsn /\ skNode' = p.skNode
    /\ primaryPos' = p.primaryPos /\ nStreamed' = p.nStreamed
    /\ faults' = p.faults
    /\ fbLog' = p.fbLog /\ proposals' = p.proposals
    /\ handshaken' = p.handshaken /\ startRepl' = p.startRepl
    /\ resetInSend' = p.resetInSend
    /\ handed' = p.handed
    /\ probe' = probe
    /\ UNCHANGED <<senderVars, registryVars, queueVars>>

----------------------------------------------------------------------------
(* utils.c                                                                 *)

\* memcmp of two uuids: the sign of the first difference
Memcmp(u1, u2) == IF u1 < u2 THEN -1 ELSE IF u1 > u2 THEN 1 ELSE 0

\* CompareNodeId: term first; on equal terms memcmp(&id1->uuid, &id1->uuid)
CompareNodeId(id1, id2) ==
    IF id1.term < id2.term THEN -1
    ELSE IF id1.term > id2.term THEN 1
    ELSE Memcmp(id1.uuid, id1.uuid)

\* the comparator of an ascending sort
CompareLsn_asc(lsn1, lsn2) ==
    IF lsn1 < lsn2 THEN -1 ELSE IF lsn1 = lsn2 THEN 0 ELSE 1

\* CompareLsn, the qsort comparator: the larger LSN sorts first
CompareLsn(lsn1, lsn2) ==
    IF lsn1 > lsn2 THEN -1 ELSE IF lsn1 = lsn2 THEN 0 ELSE 1

\* qsort(base, n, CompareLsn) as an insertion sort driven by the comparator
RECURSIVE InsertSorted(_, _)
InsertSorted(s, x) ==
    IF s = <<>> THEN <<x>>
    ELSE IF CompareLsn(x, Head(s)) <= 0 THEN <<x>> \o s
    ELSE <<Head(s)>> \o InsertSorted(Tail(s), x)

RECURSIVE Qsort(_)
Qsort(s) == IF s = <<>> THEN <<>> ELSE InsertSorted(Qsort(Tail(s)), Head(s))

\* the lowest descriptor free in the process, as socket() returns it
FreeFds(open) == (ServerFd .. MaxFds) \ open
LowestFree(open) == CHOOSE f \in FreeFds(open) : \A g \in FreeFds(open) : f <= g

\* ConnectSocketAsync: oc is what the network does to the attempt.
\*   invalid   name resolution or socket() fails: returns -1
\*   refused   connect() fails on the last address: the socket is closed and
\*             its number is returned, *established is not written
\*   pending   connect() is in progress (EAGAIN/EWOULDBLOCK)
\*   ok, wfail connect() succeeds at once
\* est is the value found in the caller's uninitialised `established` when
\* the callee does not write it.
ConnectSocketAsync(open, oc, est) ==
    IF oc = "invalid" \/ FreeFds(open) = {}
    THEN [sock |-> PGINVALID_SOCKET, established |-> est, openFds |-> open]
    ELSE LET fd == LowestFree(open) IN
         IF oc = "refused"
         THEN [sock |-> fd, established |-> est, openFds |-> open]
         ELSE [sock |-> fd, established |-> (oc # "pending"),
               openFds |-> open \cup {fd}]

----------------------------------------------------------------------------
(* Connection attempts the network can answer a reset with: a plan is the  *)
(* sequence of answers to the attempts ResetConnection makes, each         *)
(* [oc, est]; every answer but the last makes ResetConnection call itself. *)

Retrying == {[oc |-> "wfail", est |-> TRUE], [oc |-> "refused", est |-> TRUE]}
Final == {[oc |-> "ok", est |-> TRUE], [oc |-> "pending", est |-> FALSE],
          [oc |-> "invalid", est |-> FALSE], [oc |-> "refused", est |-> FALSE]}
AnswerCost(a) == IF a.oc \in {"ok", "pending"} THEN 0 ELSE 1

RECURSIVE PlanCost(_)
PlanCost(plan) ==
    IF plan = <<>> THEN 0 ELSE AnswerCost(Head(plan)) + PlanCost(Tail(plan))

RECURSIVE Plans(_)
Plans(b) ==
    {<<a>> : a \in {f \in Final : AnswerCost(f) <= b}}
    \cup (IF b >= 1
          THEN {<<a>> \o q : a \in Retrying, q \in Plans(b - 1)}
          ELSE {})

----------------------------------------------------------------------------
(* safekeeper_proxy.c                                                      *)

\* ResetConnection(i)
RECURSIVE ResetConnection(_, _, _)
ResetConnection(p, i, plan) ==
    LET old == p.sock[i]
        p1 == IF p.state[i] # "SS_OFFLINE"
              THEN [p EXCEPT !.openFds = @ \ {old},
                             !.writeSet = @ \ {old},
                             !.readSet = @ \ {old},
                             !.sock[i] = PGINVALID_SOCKET,
                             !.state[i] = "SS_OFFLINE",
                             !.handed[i] = 0]
              ELSE p
        a == Head(plan)
        c == ConnectSocketAsync(p1.openFds, a.oc, a.est)
        p2 == [p1 EXCEPT !.sock[i] = c.sock, !.openFds = c.openFds]
    IN  IF c.sock = PGINVALID_SOCKET THEN p2
        ELSE LET p3 == [p2 EXCEPT !.readSet = @ \cup {c.sock},
                                  !.maxFds = Max(@, c.sock)]
             IN  IF c.established
                 THEN IF a.oc = "ok"
                      THEN [p3 EXCEPT !.state[i] = "SS_HANDSHAKE",
                                      !.asyncOffs[i] = 0]
                      ELSE ResetConnection(p3, i, Tail(plan))
                 ELSE [p3 EXCEPT !.state[i] = "SS_CONNECTING"]

\* GetAcknowledgedWALPosition
GetAcknowledgedWALPosition(p) ==
    LET responses == Qsort([k \in 1 .. p.n_safekeepers |-> p.ackPos[k - 1]])
    IN  responses[(p.n_safekeepers - p.quorum) + 1]

\* ackMask, an int used as a set of bits
HasBit(mask, i) == (mask \div (2 ^ i)) % 2 = 1
\* `=` in place of `|=`: the mask keeps only the last bit
OrBit_assign(mask, i) == 2 ^ i
OrBit(mask, i) == IF HasBit(mask, i) THEN mask ELSE mask + 2 ^ i
FullMask(p) == (2 ^ p.n_safekeepers) - 1

\* walEnd as the proxy patches it into the record's header
WalEnd(msg) == msg.walPos + msg.size - XLOG_HDR_SIZE

\* feedback also for a position already reported
NeedFeedback_ge(minQuorumLsn, last) == minQuorumLsn >= last

\* `if (minQuorumLsn > lastAckPos)`
NeedFeedback(minQuorumLsn, last) == minQuorumLsn > last

RECURSIVE Cleanup(_, _)
Cleanup(q, full) ==
    IF q # <<>> /\ Head(q).ackMask = full THEN Cleanup(Tail(q), full) ELSE q

\* HandleSafekeeperResponse: fbOk is whether the primary takes the feedback.
\* Gives the new state and the function's result.
HandleSafekeeperResponse(p, fbOk) ==
    LET minQuorumLsn == GetAcknowledgedWALPosition(p)
        send == NeedFeedback(minQuorumLsn, p.lastAckPos)
        sent == send /\ fbOk /\ p.streaming
        p1 == IF send THEN [p EXCEPT !.lastAckPos = minQuorumLsn] ELSE p
        p2 == IF sent THEN [p1 EXCEPT !.fbLog = Append(@, minQuorumLsn)] ELSE p1
    IN  IF send /\ ~sent
        THEN [st |-> p2, ok |-> FALSE]
        ELSE [st |-> [p2 EXCEPT !.msgQueue = Cleanup(@, FullMask(p))], ok |-> TRUE]

\* What one non-blocking transfer of `want` bytes, resumed at offset offs,
\* can return: -1, or the bytes moved before EAGAIN.
Transfers(offs, want) ==
    {-1} \cup {r \in 0 .. want : r = want \/ offs + r <= MaxCut}

\* a transfer that moved some bytes but not all
Short(rc, want) == 0 < rc /\ rc < want

\* BroadcastMessage without `asyncOffs = 0` when the whole record is written
SendTo_stale(p, i, msg, io) ==
    IF io.rc < 0 THEN ResetConnection(p, i, io.plan)
    ELSE IF io.rc = msg.size
    THEN [p EXCEPT !.state[i] = "SS_RECV_ACK",
                   !.skLsn[i] = Max(@, WalEnd(msg)),
                   !.handed[i] = msg.walPos]
    ELSE [p EXCEPT !.state[i] = "SS_SEND_WAL", !.asyncOffs[i] = io.rc,
                   !.writeSet = @ \cup {p.sock[i]},
                   !.handed[i] = msg.walPos]

\* One step of BroadcastMessage for peer i: io = [rc, plan]
SendTo(p, i, msg, io) ==
    IF io.rc < 0 THEN ResetConnection(p, i, io.plan)
    ELSE IF io.rc = msg.size
    THEN [p EXCEPT !.asyncOffs[i] = 0, !.state[i] = "SS_RECV_ACK",
                   !.skLsn[i] = Max(@, WalEnd(msg)),
                   !.handed[i] = msg.walPos]
    ELSE [p EXCEPT !.state[i] = "SS_SEND_WAL", !.asyncOffs[i] = io.rc,
                   !.writeSet = @ \cup {p.sock[i]},
                   !.handed[i] = msg.walPos]

\* BroadcastMessage(msg): the loop over i = from .. n_safekeepers - 1
RECURSIVE BroadcastFrom(_, _, _, _)
BroadcastFrom(p, from, msg, ios) ==
    IF from >= p.n_safekeepers THEN p
    ELSE BroadcastFrom(IF p.state[from] = "SS_IDLE"
                       THEN SendTo(p, from, msg, ios[from]) ELSE p,
                       from + 1, msg, ios)

BroadcastMessage(p, msg, ios) == BroadcastFrom(p, 0, msg, ios)

\* XLogSegmentOffset(xlogptr, wal_segsz_bytes)
XLogSegmentOffset(lsn, segsz) == lsn % segsz

\* StartReplication: the position the stream is requested from
StartPos(p) ==
    LET q == GetAcknowledgedWALPosition(p)
        s == IF q = 0 THEN p.serverInfo.walEnd ELSE q
    IN  s - XLogSegmentOffset(s, p.serverInfo.walSegSize)

----------------------------------------------------------------------------
(* Memory written by a partial read                                        *)

\* byte k of x, x stored least significant byte first
Byte(x, k) == (x \div (256 ^ k)) % 256

\* The integer found in a buffer that held old, after n bytes of v were
\* stored at offset from.  The values of the model are below 2^24: the bytes
\* from 3 on are 0 in old and in v.
RECURSIVE StoreBytes(_, _, _, _)
StoreBytes(old, v, from, n) ==
    IF n = 0 \/ from >= 3 THEN old
    ELSE StoreBytes(old - Byte(old, from) * (256 ^ from)
                        + Byte(v, from) * (256 ^ from),
                    v, from + 1, n - 1)

----------------------------------------------------------------------------
(* The safekeeper at the other end of a connection                         *)

\* the order of NodeIds a safekeeper uses: term, then uuid
NodeIdLess(a, b) == a.term < b.term \/ (a.term = b.term /\ a.uuid < b.uuid)

\* a safekeeper handed a proposal keeps the larger of it and its own NodeId,
\* and echoes what it keeps
Accept(own, proposal) == IF NodeIdLess(own, proposal) THEN proposal ELSE own

----------------------------------------------------------------------------
(* Handlers of BroadcastWalStream                                          *)

\* the loop that sends maxNodeId to every peer in SS_VOTE, j = from ..;
\* ws[j] = [ok, plan] is how WriteSocket to j ends
RECURSIVE VoteFrom(_, _, _)
VoteFrom(p, from, ws) ==
    IF from >= p.n_safekeepers THEN p
    ELSE VoteFrom(
           IF p.state[from] # "SS_VOTE" THEN p
           ELSE IF ~ws[from].ok THEN ResetConnection(p, from, ws[from].plan)
           ELSE [p EXCEPT !.asyncOffs[from] = 0,
                          !.state[from] = "SS_WAIT_VERDICT",
                          !.proposals = @ \cup {[to |-> from, id |-> p.maxNodeId]},
                          !.skNode[from] = Accept(@, p.maxNodeId)],
           from + 1, ws)

\* the vote started one handshake early
HaveQuorum_early(connected, q) == connected >= q - 1

\* `if (++n_connected >= quorum)`, after the increment
HaveQuorum(connected, q) == connected >= q

\* case SS_HANDSHAKE, the response completely received and its protocol
\* version accepted
HandshakeAccepted(p, i, reply, ws) ==
    LET p1 == [p EXCEPT !.state[i] = "SS_VOTE",
                        !.ackPos[i] = reply.walEnd,
                        !.info[i] = reply.nodeId,
                        !.handshaken = @ \cup {i}]
        p2 == IF CompareNodeId(reply.nodeId, p1.maxNodeId) > 0
              THEN [p1 EXCEPT !.maxNodeId = reply.nodeId] ELSE p1
        p3 == [p2 EXCEPT !.n_connected = @ + 1]
    IN  IF HaveQuorum(p3.n_connected, p3.quorum)
        THEN VoteFrom(IF p3.n_connected = p3.quorum
                      THEN [p3 EXCEPT !.maxNodeId.term = @ + 1] ELSE p3,
                      0, ws)
        ELSE p3

\* case SS_HANDSHAKE without the check of the protocol version
HandshakeDone_anyversion(p, i, reply, plan, ws) == HandshakeAccepted(p, i, reply, ws)

\* case SS_HANDSHAKE, the response completely received
HandshakeDone(p, i, reply, plan, ws) ==
    IF reply.protocolVersion # SK_PROTOCOL_VERSION
    THEN ResetConnection([p EXCEPT !.info[i] = reply.nodeId], i, plan)
    ELSE HandshakeAccepted(p, i, reply, ws)

\* case SS_WAIT_VERDICT, the response completely received
VerdictDone(p, i, echo, startOk) ==
    LET p0 == [p EXCEPT !.info[i] = echo] IN
    IF CompareNodeId(echo, p0.maxNodeId) # 0
    THEN [p0 EXCEPT !.pc = "exit1"]
    ELSE LET p1 == [p0 EXCEPT !.state[i] = "SS_IDLE", !.n_votes = @ + 1]
         IN  IF p1.n_votes = p1.quorum
             THEN IF startOk
                  THEN [p1 EXCEPT !.readSet = @ \cup {p1.server},
                                  !.primaryPos = StartPos(p1),
                                  !.startRepl = Append(@, StartPos(p1))]
                  ELSE [p1 EXCEPT !.pc = "exit1"]
             ELSE p1

\* safekeeper[i].currMsg is read but never assigned: it is NULL, and what
\* `safekeeper[i].currMsg->...` reaches is undefined.  A dereference either
\* kills the process ("crash"), reaches the message at place t of the
\* queue, or reaches memory that is no queued message ("stray").
Deref(p) ==
    {[to |-> "crash", at |-> 0], [to |-> "stray", at |-> 0]}
    \cup {[to |-> "msg", at |-> t] : t \in 1 .. Len(p.msgQueue)}

\* case SS_RECV_ACK, the response completely received
AckDone(p, i, target, fbOk) ==
    IF target.to = "crash" THEN [p EXCEPT !.pc = "crash"]
    ELSE LET p1 == IF target.to = "stray" THEN p
                   ELSE [p EXCEPT !.msgQueue[target.at].ackMask = OrBit(@, i)]
             p2 == [p1 EXCEPT !.state[i] = "SS_IDLE", !.asyncOffs[i] = 0,
                              !.handed[i] = 0]
             r == HandleSafekeeperResponse(p2, fbOk)
         IN  IF r.ok THEN r.st
             ELSE [r.st EXCEPT !.readSet = @ \ {r.st.server},
                               !.openFds = @ \ {r.st.server},
                               !.server = PGINVALID_SOCKET,
                               !.streaming = FALSE]

\* StopSafekeepers: the loop closing every socket, i = from ..
RECURSIVE StopFrom(_, _)
StopFrom(p, from) ==
    IF from >= p.n_safekeepers THEN p
    ELSE StopFrom(IF p.sock[from] # PGINVALID_SOCKET
                  THEN [p EXCEPT !.openFds = @ \ {p.sock[from]},
                                 !.sock[from] = PGINVALID_SOCKET]
                  ELSE p,
                  from + 1)

StopSafekeepers(p) == [StopFrom(p, 0) EXCEPT !.pc = "done"]

\* the loop of ResetConnection(i) before the event loop, i = from ..
RECURSIVE ConnectFrom(_, _, _)
ConnectFrom(p, from, plans) ==
    IF from >= p.n_safekeepers THEN p
    ELSE ConnectFrom(ResetConnection(p, from, plans[from]), from + 1, plans)

----------------------------------------------------------------------------
(* What the environment may do within the budget of failures               *)

Budget == (MaxScenario - n_safekeepers) - faults

RECURSIVE SumOver(_, _)
SumOver(S, f) ==
    IF S = {} THEN 0
    ELSE LET x == CHOOSE y \in S : TRUE IN f[x] + SumOver(S \ {x}, f)

NoPlan == <<>>

\* how a transfer for one peer ends: the count and, for -1, the answers to
\* the connection attempts of the reset that follows
IoEnds(offs, want, b) ==
    {[rc |-> r, plan |-> NoPlan] :
        r \in {t \in Transfers(offs, want) \ {-1} : Short(t, want) => b >= 1}}
    \cup (IF b >= 1 THEN {[rc |-> -1, plan |-> q] : q \in Plans(b - 1)} ELSE {})
\* the ends that are no error
Moves(offs, want, b) == {io \in IoEnds(offs, want, b) : io.rc >= 0}
IoCost(io, want) ==
    IF io.rc < 0 THEN 1 + PlanCost(io.plan)
    ELSE IF Short(io.rc, want) THEN 1 ELSE 0

\* how a blocking WriteSocket ends
WriteEnds(b) ==
    {[ok |-> TRUE, plan |-> NoPlan]}
    \cup (IF b >= 1 THEN {[ok |-> FALSE, plan |-> q] : q \in Plans(b - 1)} ELSE {})
WriteCost(w) == IF w.ok THEN 0 ELSE 1 + PlanCost(w.plan)

Charge(p, cost) == [p EXCEPT !.faults = @ + cost]

----------------------------------------------------------------------------
(* The state after construction: main() has parsed the options and filled  *)
(* serverInfo, BroadcastWalStream has not yet run.                         *)

Init ==
    /\ n_safekeepers \in 1 .. MaxSafekeepers
    /\ quorum \in ((n_safekeepers \div 2) + 1) .. n_safekeepers
    /\ serverInfo \in [walEnd : ServerWalEnds, walSegSize : WalSegSizes]
    /\ state = [i \in Peers |-> "SS_OFFLINE"]
    /\ sock = [i \in Peers |-> PGINVALID_SOCKET]
    /\ asyncOffs = [i \in Peers |-> 0]
    /\ ackPos = [i \in Peers |-> 0]
    /\ info = [i \in Peers |-> [term |-> 0, uuid |-> 0]]
    /\ currMsg = [i \in Peers |-> 0]
    /\ msgQueue = <<>>
    /\ lastAckPos = 0
    /\ readSet = {}
    /\ writeSet = {}
    /\ maxFds = ServerFd
    /\ streaming = TRUE
    /\ server = ServerFd
    /\ n_votes = 0
    /\ n_connected = 0
    /\ maxNodeId \in UninitNodeIds
    /\ pc = "init"
    /\ openFds = {ServerFd}
    /\ skLsn \in [Peers -> InitLsns]
    /\ skNode \in {[i \in Peers |-> [term |-> IF i = n_safekeepers - 1 THEN t ELSE 0,
                                     uuid |-> i + 1]] : t \in 0 .. MaxTerm}
    /\ primaryPos = 0
    /\ nStreamed = 0
    /\ faults = 0
    /\ fbLog = <<>>
    /\ proposals = {}
    /\ handshaken = {}
    /\ startRepl = <<>>
    /\ resetInSend = {}
    /\ handed = [i \in Peers |-> 0]
    /\ probe = [done |-> FALSE, value |-> 0]
    /\ NoSender
    /\ NoQueue

----------------------------------------------------------------------------
(* The event loop                                                          *)

\* select() fails with EBADF on a descriptor that is not open
SelectOK == (readSet \cup writeSet) \subseteq openFds
InLoop == pc = "loop" /\ (streaming \/ msgQueue # <<>>) /\ SelectOK

\* FD_ISSET(server, &rs): the branch taken before any safekeeper is looked at
ServerReady == server \in readSet
PeerReady(i) ==
    /\ InLoop
    /\ sock[i] # PGINVALID_SOCKET
    /\ sock[i] \in readSet
    /\ sock[i] # server

\* BroadcastWalStream up to the loop: FD_ZERO, ResetConnection for every peer
Start ==
    /\ pc = "init"
    /\ \E plans \in [Peers -> Plans(Budget)] :
          LET cost == SumOver(Peers, [i \in Peers |-> PlanCost(plans[i])]) IN
          /\ cost <= Budget
          /\ Install(Charge(ConnectFrom([Cur EXCEPT !.pc = "loop"], 0, plans), cost))

\* select() < 0: EBADF, or EINTR on a signal
SelectFails ==
    /\ pc = "loop" /\ (streaming \/ msgQueue # <<>>)
    /\ \/ ~SelectOK /\ Install(StopSafekeepers(Cur))
       \/ SelectOK /\ Budget >= 1 /\ Install(Charge(StopSafekeepers(Cur), 1))

\* the loop condition is false
LoopExit ==
    /\ pc = "loop" /\ ~(streaming \/ msgQueue # <<>>)
    /\ Install(StopSafekeepers(Cur))

\* a 'w' record from the primary
ServerData ==
    /\ InLoop /\ ServerReady /\ streaming /\ nStreamed < MaxMsgs
    /\ LET msg == [walPos |-> primaryPos, size |-> XLOG_HDR_SIZE + BodySize,
                   ackMask |-> 0]
           p0 == [Cur EXCEPT !.msgQueue = Append(@, msg),
                             !.primaryPos = @ + BodySize,
                             !.nStreamed = @ + 1]
       IN  \E ios \in [Peers -> IoEnds(0, msg.size, Budget)] :
              LET cost == SumOver(Peers, [i \in Peers |->
                              IF state[i] = "SS_IDLE" THEN IoCost(ios[i], msg.size) ELSE 0]) IN
              /\ cost <= Budget
              /\ \A i \in Peers : state[i] # "SS_IDLE" => ios[i] = [rc |-> msg.size, plan |-> NoPlan]
              /\ Install(Charge(BroadcastMessage(p0, msg, ios), cost))

\* a 'k' record from the primary
ServerKeepalive ==
    /\ InLoop /\ ServerReady /\ streaming
    /\ UNCHANGED vars

\* PQgetCopyData() <= 0: the stream ended or could not be read
ServerEnd ==
    /\ InLoop /\ ServerReady /\ streaming
    /\ Install([Cur EXCEPT !.readSet = @ \ {server},
                           !.openFds = @ \ {server},
                           !.streaming = FALSE])

\* the descriptor number of the closed primary connection, reused by the
\* socket of safekeeper i, is readable: the loop takes it for the primary
ServerAliased(i) ==
    /\ InLoop /\ ServerReady /\ ~streaming /\ sock[i] = server
    /\ Install([Cur EXCEPT !.readSet = @ \ {server},
                           !.openFds = @ \ {server},
                           !.streaming = FALSE])

\* case SS_CONNECTING: getsockopt(SO_ERROR), then WriteSocket(serverInfo)
ConnectDone(i) ==
    /\ PeerReady(i) /\ state[i] = "SS_CONNECTING"
    /\ \/ /\ Budget >= 1
          /\ Install(Charge([Cur EXCEPT !.openFds = @ \ {sock[i]},
                                        !.readSet = @ \ {sock[i]},
                                        !.sock[i] = PGINVALID_SOCKET,
                                        !.state[i] = "SS_OFFLINE"], 1))
       \/ \E w \in WriteEnds(Budget) :
             Install(Charge(IF w.ok
                            THEN [Cur EXCEPT !.state[i] = "SS_HANDSHAKE",
                                             !.asyncOffs[i] = 0]
                            ELSE ResetConnection(Cur, i, w.plan),
                            WriteCost(w)))

\* case SS_HANDSHAKE
HandshakeRecv(i) ==
    /\ PeerReady(i) /\ state[i] = "SS_HANDSHAKE"
    /\ \E io \in Moves(asyncOffs[i], SizeofSafekeeperInfo - asyncOffs[i], Budget) :
          IF asyncOffs[i] + io.rc # SizeofSafekeeperInfo
          THEN Install(Charge([Cur EXCEPT !.asyncOffs[i] = @ + io.rc],
                              IF io.rc > 0 THEN 1 ELSE 0))
          ELSE \E version \in {SK_PROTOCOL_VERSION, SK_PROTOCOL_VERSION + 1},
                  plan \in Plans(Budget),
                  ws \in [Peers -> WriteEnds(Budget)] :
                  LET reply == [protocolVersion |-> version,
                                nodeId |-> skNode[i], walEnd |-> skLsn[i]]
                      bad == version # SK_PROTOCOL_VERSION
                      cost == IF bad THEN 1 + PlanCost(plan)
                              ELSE SumOver(Peers, [j \in Peers |-> WriteCost(ws[j])])
                      p0 == [Cur EXCEPT !.asyncOffs[i] = SizeofSafekeeperInfo]
                  IN  /\ cost <= Budget
                      /\ bad => \A j \in Peers : ws[j].ok
                      /\ ~bad => plan = <<[oc |-> "ok", est |-> TRUE]>>
                      /\ \A j \in Peers :
                            (j # i /\ state[j] # "SS_VOTE") => ws[j].ok
                      /\ Install(Charge(HandshakeDone(p0, i, reply, plan, ws), cost))

\* case SS_WAIT_VERDICT
VerdictRecv(i) ==
    /\ PeerReady(i) /\ state[i] = "SS_WAIT_VERDICT"
    /\ \E io \in Moves(asyncOffs[i], SizeofNodeId - asyncOffs[i], Budget) :
          IF asyncOffs[i] + io.rc # SizeofNodeId
          THEN Install(Charge([Cur EXCEPT
                  !.asyncOffs[i] = @ + io.rc,
                  !.info[i].term = StoreBytes(@, skNode[i].term, asyncOffs[i], io.rc)],
                  IF io.rc > 0 THEN 1 ELSE 0))
          ELSE \E startOk \in BOOLEAN :
                  LET p0 == [Cur EXCEPT !.asyncOffs[i] = SizeofNodeId] IN
                  /\ ~startOk => /\ Budget >= 1
                                 /\ n_votes + 1 = quorum
                                 /\ CompareNodeId(skNode[i], maxNodeId) = 0
                  /\ Install(Charge(VerdictDone(p0, i, skNode[i], startOk),
                                    IF startOk THEN 0 ELSE 1))

\* case SS_RECV_ACK
AckRecv(i) ==
    /\ PeerReady(i) /\ state[i] = "SS_RECV_ACK"
    /\ \E io \in Moves(asyncOffs[i], SizeofLsn - asyncOffs[i], Budget) :
          LET p0 == [Cur EXCEPT
                     !.asyncOffs[i] = @ + io.rc,
                     !.ackPos[i] = StoreBytes(@, skLsn[i], asyncOffs[i], io.rc)]
               IN  IF asyncOffs[i] + io.rc # SizeofLsn
                   THEN Install(Charge(p0, IF io.rc > 0 THEN 1 ELSE 0))
                   ELSE \E target \in Deref(p0), fbOk \in BOOLEAN :
                           /\ ~fbOk => /\ Budget >= 1
                                       /\ streaming
                                       /\ target.to # "crash"
                                       /\ GetAcknowledgedWALPosition(p0) > lastAckPos
                           /\ Install(Charge(AckDone(p0, i, target, fbOk),
                                             IF fbOk THEN 0 ELSE 1))

\* ReadSocketAsync() < 0 in SS_HANDSHAKE, SS_WAIT_VERDICT or SS_RECV_ACK: the
\* connection was reset
ReadError(i) ==
    /\ PeerReady(i)
    /\ state[i] \in {"SS_HANDSHAKE", "SS_WAIT_VERDICT", "SS_RECV_ACK"}
    /\ Budget >= 1
    /\ \E plan \in Plans(Budget - 1) :
          Install(Charge(ResetConnection(Cur, i, plan), 1 + PlanCost(plan)))

\* default: a descriptor is readable in a state that expects no input (the
\* safekeeper closed or reset the connection, or sent something)
UnexpectedRead(i) ==
    /\ PeerReady(i) /\ state[i] \in {"SS_VOTE", "SS_IDLE", "SS_SEND_WAL"}
    /\ Budget >= 1
    /\ Install(Charge([Cur EXCEPT !.pc = "exit1"], 1))

\* the safekeeper closed the connection while the proxy reads from it:
\* recv() returns 0 and the loop of ReadSocketAsync never ends
ReadEof(i) ==
    /\ PeerReady(i)
    /\ state[i] \in {"SS_HANDSHAKE", "SS_WAIT_VERDICT", "SS_RECV_ACK"}
    /\ Budget >= 1
    /\ Install(Charge([Cur EXCEPT !.pc = "hang"], 1))

\* Safekeeper i, between its handshake reply and the proposal of this
\* proxy, accepts the epoch of another proposer.
OtherProposer(i) ==
    /\ InLoop /\ state[i] = "SS_VOTE" /\ Budget >= 1
    /\ \E t \in {skNode[i].term + 1, skNode[i].term + 2}, u \in ForeignUuids :
          Install(Charge([Cur EXCEPT !.skNode[i] = [term |-> t, uuid |-> u]], 1))

\* FD_ISSET(safekeeper[i].sock, &ws)
PeerWritable(i) ==
    /\ InLoop
    /\ sock[i] # PGINVALID_SOCKET /\ sock[i] \in writeSet
    /\ IF state[i] # "SS_SEND_WAL"
       THEN Install([Cur EXCEPT !.pc = "exit1"])
       ELSE \E target \in Deref(Cur) \ {[to |-> "stray", at |-> 0]} :
               IF target.to = "crash"
               THEN Install([Cur EXCEPT !.pc = "crash"])
               ELSE LET msg == msgQueue[target.at] IN
                    \E io \in IoEnds(asyncOffs[i], msg.size - asyncOffs[i], Budget) :
                       IF io.rc < 0
                       THEN Install(Charge(ResetConnection(
                                [Cur EXCEPT !.resetInSend =
                                    IF asyncOffs[i] > 0 THEN @ \cup {i} ELSE @],
                                i, io.plan), IoCost(io, 0)))
                       ELSE IF asyncOffs[i] + io.rc = msg.size
                       THEN Install([Cur EXCEPT !.asyncOffs[i] = 0,
                                                !.state[i] = "SS_RECV_ACK",
                                                !.writeSet = @ \ {sock[i]},
                                                !.skLsn[i] = Max(@, WalEnd(msg))])
                       ELSE Install(Charge([Cur EXCEPT !.asyncOffs[i] = @ + io.rc],
                                           IF io.rc > 0 THEN 1 ELSE 0))

Next ==
    \/ Start
    \/ SelectFails
    \/ LoopExit
    \/ ServerData
    \/ ServerKeepalive
    \/ ServerEnd
    \/ \E i \in Peers : ServerAliased(i)
    \/ \E i \in Peers : ConnectDone(i)
    \/ \E i \in Peers : HandshakeRecv(i)
    \/ \E i \in Peers : VerdictRecv(i)
    \/ \E i \in Peers : AckRecv(i)
    \/ \E i \in Peers : ReadError(i)
    \/ \E i \in Peers : UnexpectedRead(i)
    \/ \E i \in Peers : ReadEof(i)
    \/ \E i \in Peers : PeerWritable(i)
    \/ \E i \in Peers : OtherProposer(i)

Spec == Init /\ [][Next]_vars

----------------------------------------------------------------------------
(* GetAcknowledgedWALPosition on its own: every vector of acknowledged     *)
(* positions, for every quorum main() accepts                              *)

MaxVector == 4
MaxLsn == 2

QuorumInit ==
    /\ n_safekeepers \in 1 .. MaxVector
    /\ quorum \in ((n_safekeepers \div 2) + 1) .. n_safekeepers
    /\ serverInfo \in [walEnd : ServerWalEnds, walSegSize : WalSegSizes]
    /\ state = [i \in Peers |-> "SS_IDLE"]
    /\ sock = [i \in Peers |-> PGINVALID_SOCKET]
    /\ asyncOffs = [i \in Peers |-> 0]
    /\ ackPos \in [Peers -> 0 .. MaxLsn]
    /\ info = [i \in Peers |-> [term |-> 0, uuid |-> 0]]
    /\ currMsg = [i \in Peers |-> 0]
    /\ msgQueue = <<>>
    /\ lastAckPos = 0
    /\ readSet = {}
    /\ writeSet = {}
    /\ maxFds = ServerFd
    /\ streaming = TRUE
    /\ server = ServerFd
    /\ n_votes = 0
    /\ n_connected = 0
    /\ maxNodeId = [term |-> 0, uuid |-> 0]
    /\ pc = "quorum"
    /\ openFds = {ServerFd}
    /\ skLsn = ackPos
    /\ skNode = [i \in Peers |-> [term |-> 0, uuid |-> i + 1]]
    /\ primaryPos = 0
    /\ nStreamed = 0
    /\ faults = 0
    /\ fbLog = <<>>
    /\ proposals = {}
    /\ handshaken = {}
    /\ startRepl = <<>>
    /\ resetInSend = {}
    /\ handed = [i \in Peers |-> 0]
    /\ probe = [done |-> FALSE, value |-> 0]
    /\ NoSender
    /\ NoQueue

\* one call of GetAcknowledgedWALPosition()
QuorumCall ==
    /\ pc = "quorum" /\ ~probe.done
    /\ probe' = [done |-> TRUE, value |-> GetAcknowledgedWALPosition(Cur)]
    /\ UNCHANGED <<progVars, envVars, histVars, senderVars, registryVars, queueVars>>

QuorumNext == QuorumCall
QuorumSpec == QuorumInit /\ [][QuorumNext]_vars

----------------------------------------------------------------------------
(* StartReplication() on its own: every small combination of the positions *)
(* the safekeepers reported in the handshake and of the primary's walEnd   *)

MaxStartPeers == 2
MaxStartLsn == 5
StartSegSizes == {2, 4}

StartInit ==
    /\ n_safekeepers \in 1 .. MaxStartPeers
    /\ quorum \in ((n_safekeepers \div 2) + 1) .. n_safekeepers
    /\ serverInfo \in [walEnd : 0 .. MaxStartLsn, walSegSize : StartSegSizes]
    /\ state = [i \in Peers |-> "SS_IDLE"]
    /\ sock = [i \in Peers |-> PGINVALID_SOCKET]
    /\ asyncOffs = [i \in Peers |-> 0]
    /\ ackPos \in [Peers -> 0 .. MaxStartLsn]
    /\ info = [i \in Peers |-> [term |-> 0, uuid |-> 0]]
    /\ currMsg = [i \in Peers |-> 0]
    /\ msgQueue = <<>>
    /\ lastAckPos = 0
    /\ readSet = {}
    /\ writeSet = {}
    /\ maxFds = ServerFd
    /\ streaming = TRUE
    /\ server = ServerFd
    /\ n_votes = quorum
    /\ n_connected = n_safekeepers
    /\ maxNodeId = [term |-> 0, uuid |-> 0]
    /\ pc = "start"
    /\ openFds = {ServerFd}
    /\ skLsn = ackPos
    /\ skNode = [i \in Peers |-> [term |-> 0, uuid |-> i + 1]]
    /\ primaryPos = 0
    /\ nStreamed = 0
    /\ faults = 0
    /\ fbLog = <<>>
    /\ proposals = {}
    /\ handshaken = {}
    /\ startRepl = <<>>
    /\ resetInSend = {}
    /\ handed = [i \in Peers |-> 0]
    /\ probe = [done |-> FALSE, value |-> 0]
    /\ NoSender
    /\ NoQueue

\* one call of StartReplication(): the position put into the command
StartCall ==
    /\ pc = "start" /\ ~probe.done
    /\ probe' = [done |-> TRUE, value |-> StartPos(Cur)]
    /\ UNCHANGED <<progVars, envVars, histVars, senderVars, registryVars, queueVars>>

StartNext == StartCall
StartSpec == StartInit /\ [][StartNext]_vars

----------------------------------------------------------------------------
(* CompareNodeId() on its own: the NodeId of safekeeper 0 against          *)
(* maxNodeId, and the other way round, for every pair of small NodeIds     *)

MaxCmpTerm == 3
MaxCmpUuid == 3
CmpNodeIds == [term : 0 .. MaxCmpTerm, uuid : 0 .. MaxCmpUuid]

CompareInit ==
    /\ n_safekeepers = 1 /\ quorum = 1
    /\ serverInfo = [walEnd |-> 0, walSegSize |-> 16]
    /\ state = [i \in Peers |-> "SS_HANDSHAKE"]
    /\ sock = [i \in Peers |-> PGINVALID_SOCKET]
    /\ asyncOffs = [i \in Peers |-> 0]
    /\ ackPos = [i \in Peers |-> 0]
    /\ info \in [Peers -> CmpNodeIds]
    /\ currMsg = [i \in Peers |-> 0]
    /\ msgQueue = <<>>
    /\ lastAckPos = 0
    /\ readSet = {} /\ writeSet = {}
    /\ maxFds = ServerFd
    /\ streaming = TRUE
    /\ server = ServerFd
    /\ n_votes = 0 /\ n_connected = 0
    /\ maxNodeId \in CmpNodeIds
    /\ pc = "compare"
    /\ openFds = {ServerFd}
    /\ skLsn = [i \in Peers |-> 0]
    /\ skNode = info
    /\ primaryPos = 0 /\ nStreamed = 0 /\ faults = 0
    /\ fbLog = <<>> /\ proposals = {} /\ handshaken = {}
    /\ startRepl = <<>> /\ resetInSend = {}
    /\ handed = [i \in Peers |-> 0]
    /\ probe = [done |-> FALSE, value |-> [ab |-> 0, ba |-> 0]]
    /\ NoSender
    /\ NoQueue

\* CompareNodeId(&safekeeper[0].info.server.nodeId, &maxNodeId), and the
\* call with the arguments exchanged
CompareCall ==
    /\ pc = "compare" /\ ~probe.done
    /\ probe' = [done |-> TRUE,
                 value |-> [ab |-> CompareNodeId(info[0], maxNodeId),
                            ba |-> CompareNodeId(maxNodeId, info[0])]]
    /\ UNCHANGED <<progVars, envVars, histVars, senderVars, registryVars, queueVars>>

CompareNext == CompareCall
CompareSpec == CompareInit /\ [][CompareNext]_vars

----------------------------------------------------------------------------
(* walsender.c: WalSenderMain from the rounding of startpos on, with       *)
(* NotifyWalSenders and StopWalSenders called by other threads.  Positions *)
(* are in units of 64 KiB.  Every segment that holds WAL below flushLsn is *)
(* on disk, and its file holds the WAL flushed so far, at most walSegSize. *)

\* 128 KiB; the definition is in safekeeper.h
MAX_SEND_SIZE == 2
\* the values a uint32 takes: 2^32 bytes
Uint32Range == 65536
\* segments of 1 MiB
SenderSegSizes == {16}
\* start positions asked for, and positions announced as flushed
Requests == {0, 5, 16, 21}
NotifyLsns == {1, 2, 19, 65568}

Min(a, b) == IF a < b THEN a ELSE b
\* the cast `(uint32)`
Uint32(x) == x % Uint32Range
XLByteToSeg(lsn, segsz) == lsn \div segsz

\* bytes in the file of segment segno
FileSize(segno) ==
    Min(walSender.walSegSize, Max(0, flushLsn - segno * walSender.walSegSize))

\* `sendSize = Min((uint32)(flushLsn - startpos), MAX_SEND_SIZE)`
SendSize == Min(Uint32(flushLsn - startpos), MAX_SEND_SIZE)

\* the proxy's variables, not used by the WAL sender
ProxyUnused ==
    /\ n_safekeepers = 1 /\ quorum = 1
    /\ serverInfo = [walEnd |-> 0, walSegSize |-> 16]
    /\ state = [i \in Peers |-> "SS_OFFLINE"]
    /\ sock = [i \in Peers |-> PGINVALID_SOCKET]
    /\ asyncOffs = [i \in Peers |-> 0]
    /\ ackPos = [i \in Peers |-> 0]
    /\ info = [i \in Peers |-> [term |-> 0, uuid |-> 0]]
    /\ currMsg = [i \in Peers |-> 0]
    /\ msgQueue = <<>>
    /\ lastAckPos = 0
    /\ readSet = {} /\ writeSet = {}
    /\ maxFds = 0
    /\ streaming = FALSE
    /\ server = PGINVALID_SOCKET
    /\ n_votes = 0 /\ n_connected = 0
    /\ maxNodeId = [term |-> 0, uuid |-> 0]
    /\ pc = "sender"
    /\ openFds = {}
    /\ skLsn = [i \in Peers |-> 0]
    /\ skNode = [i \in Peers |-> [term |-> 0, uuid |-> 0]]
    /\ primaryPos = 0 /\ nStreamed = 0 /\ faults = 0
    /\ fbLog = <<>> /\ proposals = {} /\ handshaken = {}
    /\ startRepl = <<>> /\ resetInSend = {}
    /\ handed = [i \in Peers |-> 0]
    /\ probe = [done |-> FALSE, value |-> 0]

\* the thread has left the loop of commands with startpos set
SenderInit ==
    /\ ProxyUnused
    /\ walSender \in [walSegSize : SenderSegSizes]
    /\ request \in Requests
    /\ startpos = request
    /\ flushLsn = 0
    /\ senderStreaming = TRUE
    /\ walfile = -1 /\ filePos = 0 /\ sendSize = 0
    /\ senderPc = "start"
    /\ lastFrame = NoFrame
    /\ NoRegistry
    /\ NoQueue

proxyVars == <<progVars, envVars, histVars, probe>>

\* Epilogue: the file is closed and the thread returns
Epilogue ==
    /\ walfile' = -1 /\ filePos' = 0
    /\ senderPc' = "exited"

\* `startpos -= XLogSegmentOffset(startpos, ws->walSegSize)`
SenderStart ==
    /\ senderPc = "start"
    /\ startpos' = startpos - XLogSegmentOffset(startpos, walSender.walSegSize)
    /\ senderPc' = "wait"
    /\ UNCHANGED <<proxyVars, registryVars, queueVars, walSender, request, flushLsn, senderStreaming,
                   walfile, filePos, sendSize, lastFrame>>

\* pthread_cond_broadcast(&cond), on the place of the thread: a thread in
\* pthread_cond_wait goes back to the test of the wait loop
Broadcast_none(at) == at
Broadcast(at) == IF at = "asleep" THEN "wait" ELSE at

\* the wait for data: the test of `while (streaming)` and, with the mutex
\* held, of `while (startpos >= flushLsn && streaming)`; then either
\* pthread_cond_wait, which gives up the mutex and sleeps, or the test of
\* `streaming` after the wait.  The feedback of the replica is read and
\* dropped.
SenderWait ==
    /\ senderPc = "wait"
    /\ IF ~senderStreaming THEN Epilogue
       ELSE /\ senderPc' = IF startpos >= flushLsn THEN "asleep" ELSE "open"
            /\ UNCHANGED <<walfile, filePos>>
    /\ UNCHANGED <<proxyVars, registryVars, queueVars, walSender, request, startpos, flushLsn,
                   senderStreaming, sendSize, lastFrame>>

\* pthread_cond_wait returns without a broadcast, as POSIX allows
SenderWakes ==
    /\ senderPc = "asleep"
    /\ senderPc' = "wait"
    /\ UNCHANGED <<proxyVars, registryVars, queueVars, walSender, request, startpos, flushLsn,
                   senderStreaming, walfile, filePos, sendSize, lastFrame>>

\* `if (walfile < 0)`: the file of the segment of startpos is opened
SenderOpen ==
    /\ senderPc = "open"
    /\ IF walfile < 0
       THEN /\ walfile' = XLByteToSeg(startpos, walSender.walSegSize)
            /\ filePos' = 0
       ELSE UNCHANGED <<walfile, filePos>>
    /\ senderPc' = "read"
    /\ UNCHANGED <<proxyVars, registryVars, queueVars, walSender, request, startpos, flushLsn,
                   senderStreaming, sendSize, lastFrame>>

\* sendSize is computed and read() is asked for as many bytes
SenderRead ==
    /\ senderPc = "read"
    /\ sendSize' = SendSize
    /\ LET got == Min(sendSize', Max(0, FileSize(walfile) - filePos)) IN
       IF got # sendSize'
       THEN Epilogue
       ELSE /\ filePos' = filePos + got
            /\ senderPc' = "send"
            /\ UNCHANGED walfile
    /\ UNCHANGED <<proxyVars, registryVars, queueVars, walSender, request, startpos, flushLsn,
                   senderStreaming, lastFrame>>

\* the frame is built, with flushLsn read again, and written; startpos
\* advances and the file is closed at the end of the segment
SenderSend ==
    /\ senderPc = "send"
    /\ \/ /\ Epilogue
          /\ UNCHANGED <<startpos, lastFrame>>
       \/ /\ lastFrame' = [dataStart |-> startpos, len |-> sendSize,
                           walEnd |-> flushLsn, sent |-> TRUE]
          /\ startpos' = startpos + sendSize
          /\ IF XLogSegmentOffset(startpos', walSender.walSegSize) = 0
             THEN walfile' = -1 /\ filePos' = 0
             ELSE UNCHANGED <<walfile, filePos>>
          /\ senderPc' = "wait"
    /\ UNCHANGED <<proxyVars, registryVars, queueVars, walSender, request, flushLsn, senderStreaming,
                   sendSize>>

\* NotifyWalSenders(lsn), called with the positions flushed, in order
NotifyWalSenders ==
    /\ senderPc # "none"
    /\ \E lsn \in NotifyLsns :
          /\ lsn > flushLsn
          /\ flushLsn' = lsn
    /\ senderPc' = Broadcast(senderPc)
    /\ UNCHANGED <<proxyVars, registryVars, queueVars, walSender, request, startpos, senderStreaming,
                   walfile, filePos, sendSize, lastFrame>>

\* StopWalSenders
StopWalSenders ==
    /\ senderPc # "none" /\ senderStreaming
    /\ senderStreaming' = FALSE
    /\ senderPc' = Broadcast(senderPc)
    /\ UNCHANGED <<proxyVars, registryVars, queueVars, walSender, request, startpos, flushLsn,
                   walfile, filePos, sendSize, lastFrame>>

SenderNext ==
    \/ SenderStart
    \/ SenderWait
    \/ SenderWakes
    \/ SenderOpen
    \/ SenderRead
    \/ SenderSend
    \/ NotifyWalSenders
    \/ StopWalSenders

SenderSpec == SenderInit /\ [][SenderNext]_vars

----------------------------------------------------------------------------
(* walsender.c: the registry of WAL senders.  StartWalSender creates the   *)
(* threads, each runs WalSenderMain, and StopWalSenders joins them.  What  *)
(* a thread reads from its client, finds on disk or is told by             *)
(* NotifyWalSenders is chosen freely; the list is kept pointer by pointer. *)
(* One action is one stretch of a thread that runs without the mutex, or   *)
(* one critical section.                                                   *)

MaxSenders == 3
\* frames a thread sends at most
MaxSent == 1
Senders == 1 .. MaxSenders
\* a pointer of a WalSender that is not allocated, or is freed
Freed == -1

\* EnqueueWalSender(ws), ws = node w
EnqueueWalSender(L, w) ==
    LET next1 == [L.next EXCEPT ![w] = 0]
        prev1 == [L.prev EXCEPT ![w] = L.prev[0]]
        \* walSenders.prev = ws->prev->next = ws
        next2 == [next1 EXCEPT ![prev1[w]] = w]
        prev2 == [prev1 EXCEPT ![0] = w]
    IN  [next |-> next2, prev |-> prev2]

\* DequeueWalSender without its second assignment
DequeueWalSender_half(L, w) ==
    [next |-> L.next, prev |-> [L.prev EXCEPT ![L.next[w]] = L.prev[w]]]

\* DequeueWalSender(ws), ws = node w
DequeueWalSender(L, w) ==
    LET prev1 == [L.prev EXCEPT ![L.next[w]] = L.prev[w]]
        next1 == [L.next EXCEPT ![prev1[w]] = L.next[w]]
    IN  [next |-> next1, prev |-> prev1]

\* pg_free(ws)
FreeWalSender(L, w) ==
    [next |-> [L.next EXCEPT ![w] = Freed], prev |-> [L.prev EXCEPT ![w] = Freed]]

RegistryInit ==
    /\ ProxyUnused
    /\ walSender = [walSegSize |-> 0]
    /\ request = 0 /\ startpos = 0 /\ flushLsn = 0
    /\ senderStreaming = TRUE
    /\ walfile = -1 /\ filePos = 0 /\ sendSize = 0
    /\ senderPc = "none"
    /\ lastFrame = NoFrame
    /\ walSenders = [next |-> [n \in 0 .. MaxSenders |-> IF n = 0 THEN 0 ELSE Freed],
                     prev |-> [n \in 0 .. MaxSenders |-> IF n = 0 THEN 0 ELSE Freed]]
    /\ thread = [t \in Senders |-> [pc |-> "none", walfile |-> -1,
                                    sock |-> FALSE, why |-> "none",
                                    frames |-> 0, pos |-> 0]]
    /\ stopper = [pc |-> "idle", t |-> 0]
    /\ NoQueue

registryRest == <<proxyVars, queueVars, walSender, request, startpos, flushLsn, walfile,
                  filePos, sendSize, senderPc, lastFrame>>

\* Epilogue of thread t, reached for the reason `why`
ThreadEpilogue(t, why) ==
    /\ thread' = [thread EXCEPT ![t].pc = "exited", ![t].walfile = -1,
                                ![t].sock = FALSE, ![t].why = why]
    /\ walSenders' = FreeWalSender(DequeueWalSender(walSenders, t), t)

\* StartWalSender: pthread_create gives a thread, or fails
StartWalSender(t) ==
    /\ stopper.pc = "idle" /\ thread[t].pc = "none"
    /\ \/ thread' = [thread EXCEPT ![t].pc = "created", ![t].sock = TRUE]
       \/ thread' = [thread EXCEPT ![t].pc = "nothread"]
    /\ UNCHANGED <<registryRest, senderStreaming, walSenders, stopper>>

\* the thread begins: EnqueueWalSender(ws)
ThreadEnqueue(t) ==
    /\ thread[t].pc = "created"
    /\ walSenders' = EnqueueWalSender(walSenders, t)
    /\ thread' = [thread EXCEPT ![t].pc = "handshake"]
    /\ UNCHANGED <<registryRest, senderStreaming, stopper>>

\* pg_set_block, the startup packet and the answer to it
ThreadHandshake(t) ==
    /\ thread[t].pc = "handshake"
    /\ \/ /\ thread' = [thread EXCEPT ![t].pc = "command"]
          /\ UNCHANGED walSenders
       \/ ThreadEpilogue(t, "handshake")
    /\ UNCHANGED <<registryRest, senderStreaming, stopper>>

\* the loop of commands: START_REPLICATION, or a failure
ThreadCommand(t) ==
    /\ thread[t].pc = "command"
    /\ \/ /\ thread' = [thread EXCEPT ![t].pc = "wait"]
          /\ UNCHANGED walSenders
       \/ ThreadEpilogue(t, "command")
    /\ UNCHANGED <<registryRest, senderStreaming, stopper>>

\* `while (streaming)` and the wait for data
ThreadWait(t) ==
    /\ thread[t].pc = "wait"
    /\ IF senderStreaming
       THEN /\ thread' = [thread EXCEPT ![t].pc = "open"]
            /\ UNCHANGED walSenders
       ELSE ThreadEpilogue(t, "shutdown")
    /\ UNCHANGED <<registryRest, senderStreaming, stopper>>

\* the segment file is opened if none is open, or is missing
ThreadOpen(t) ==
    /\ thread[t].pc = "open"
    /\ \/ /\ thread' = [thread EXCEPT ![t].pc = "read", ![t].walfile = 1]
          /\ UNCHANGED walSenders
       \/ /\ thread[t].walfile < 0
          /\ ThreadEpilogue(t, "open")
    /\ UNCHANGED <<registryRest, senderStreaming, stopper>>

\* read() gives sendSize bytes, or fewer
ThreadRead_sends(t) ==
    /\ thread[t].pc = "read"
    /\ \/ /\ thread' = [thread EXCEPT ![t].pc = "send"]
          /\ UNCHANGED walSenders
       \/ /\ thread' = [thread EXCEPT ![t].pc = "exited", ![t].walfile = -1,
                                      ![t].sock = FALSE, ![t].why = "read",
                                      ![t].frames = @ + 1]
          /\ walSenders' = FreeWalSender(DequeueWalSender(walSenders, t), t)
    /\ UNCHANGED <<registryRest, senderStreaming, stopper>>
ThreadRead(t) ==
    /\ thread[t].pc = "read"
    /\ \/ /\ thread' = [thread EXCEPT ![t].pc = "send"]
          /\ UNCHANGED walSenders
       \/ ThreadEpilogue(t, "read")
    /\ UNCHANGED <<registryRest, senderStreaming, stopper>>

\* the frame is written and startpos advances, here by one for a frame;
\* at the end of a segment the file is closed
ThreadSend(t) ==
    /\ thread[t].pc = "send"
    /\ \/ /\ thread[t].frames < MaxSent
          /\ \E atEnd \in BOOLEAN :
                thread' = [thread EXCEPT ![t].pc = "wait",
                                         ![t].walfile = IF atEnd THEN -1 ELSE @,
                                         ![t].frames = @ + 1,
                                         ![t].pos = @ + 1]
          /\ UNCHANGED walSenders
       \/ ThreadEpilogue(t, "write")
    /\ UNCHANGED <<registryRest, senderStreaming, stopper>>

\* StopWalSenders up to the first test of the list
StopBegin ==
    /\ stopper.pc = "idle"
    /\ senderStreaming' = FALSE
    /\ stopper' = [stopper EXCEPT !.pc = "scan"]
    /\ UNCHANGED <<registryRest, walSenders, thread>>

\* `while ((ws = walSenders.next) != &walSenders)` under the mutex
StopScan ==
    /\ stopper.pc = "scan"
    /\ stopper' = IF walSenders.next[0] = 0
                  THEN [pc |-> "returned", t |-> 0]
                  ELSE [pc |-> "join", t |-> walSenders.next[0]]
    /\ UNCHANGED <<registryRest, senderStreaming, walSenders, thread>>

\* pthread_join(t) returns when the thread has returned
StopJoin ==
    /\ stopper.pc = "join" /\ thread[stopper.t].pc = "exited"
    /\ stopper' = [stopper EXCEPT !.pc = "scan"]
    /\ UNCHANGED <<registryRest, senderStreaming, walSenders, thread>>

RegistryNext ==
    \/ \E t \in Senders : StartWalSender(t)
    \/ \E t \in Senders : ThreadEnqueue(t)
    \/ \E t \in Senders : ThreadHandshake(t)
    \/ \E t \in Senders : ThreadCommand(t)
    \/ \E t \in Senders : ThreadWait(t)
    \/ \E t \in Senders : ThreadOpen(t)
    \/ \E t \in Senders : ThreadRead(t)
    \/ \E t \in Senders : ThreadSend(t)
    \/ StopBegin
    \/ StopScan
    \/ StopJoin

RegistrySpec == RegistryInit /\ [][RegistryNext]_vars

----------------------------------------------------------------------------
(* The message queue of safekeeper_proxy.c, pointer by pointer.  The       *)
(* specification QueueSpec follows msgQueueHead, msgQueueTail and the      *)
(* `next` field of every WalMessage through the three places that touch    *)
(* them, next to the sequence msgQueue the other specifications use.       *)
(* Every write to a safekeeper completes at once and no connection fails:  *)
(* those cases do not touch the queue and are followed in Spec.            *)

MaxNodes == 3       \* addresses pg_malloc can give to a WalMessage
MaxFrames == 5      \* frames received from the primary

Nodes == 1 .. MaxNodes

\* the content of an address that holds no WalMessage
Unallocated == [next |-> -1, walPos |-> -1, size |-> -1, ackMask |-> -1]

Queue == [head |-> msgQueueHead, tail |-> msgQueueTail, heap |-> msgHeap]

\* "Create new message and append it to message queue": msg is the address
\* pg_malloc returned
AppendMsg(q, msg, m) ==
    LET h1 == IF q.tail # 0 THEN [q.heap EXCEPT ![q.tail].next = msg] ELSE q.heap
    IN  [head |-> IF q.tail # 0 THEN q.head ELSE msg,
         tail |-> msg,
         heap |-> [h1 EXCEPT ![msg] = [next |-> 0, walPos |-> m.walPos,
                                       size |-> m.size, ackMask |-> m.ackMask]]]

\* the loop `while (msgQueueHead != NULL && msgQueueHead->ackMask == ...)`
RECURSIVE FreeAcked(_, _)
FreeAcked(q, full) ==
    IF q.head # 0 /\ q.heap[q.head].ackMask = full
    THEN FreeAcked([q EXCEPT !.head = q.heap[q.head].next,
                             !.heap[q.head] = Unallocated], full)
    ELSE q

\* the cleanup without `if (!msgQueueHead) msgQueueTail = NULL`
CleanupMsgQueue_keeptail(q, full) == FreeAcked(q, full)

\* "Cleanup message queue" of HandleSafekeeperResponse
CleanupMsgQueue(q, full) ==
    LET q1 == FreeAcked(q, full)
    IN  IF q1.head = 0 THEN [q1 EXCEPT !.tail = 0] ELSE q1

\* the addresses reached from a by at most n steps of `next`
RECURSIVE Messages(_, _, _)
Messages(heap, a, n) ==
    IF a = 0 \/ n = 0 \/ heap[a] = Unallocated THEN <<>>
    ELSE <<a>> \o Messages(heap, heap[a].next, n - 1)

\* the proxy has its quorum and streams; every safekeeper is idle
QueueInit ==
    /\ n_safekeepers \in 1 .. 2 /\ quorum = 1
    /\ serverInfo = [walEnd |-> 0, walSegSize |-> 16]
    /\ state = [i \in Peers |-> "SS_IDLE"]
    /\ sock = [i \in Peers |-> ServerFd + 1 + i]
    /\ asyncOffs = [i \in Peers |-> 0]
    /\ ackPos = [i \in Peers |-> 0]
    /\ info = [i \in Peers |-> [term |-> 0, uuid |-> 0]]
    /\ currMsg = [i \in Peers |-> 0]
    /\ msgQueue = <<>>
    /\ lastAckPos = 0
    /\ readSet = {ServerFd} \cup {sock[i] : i \in Peers} /\ writeSet = {}
    /\ maxFds = ServerFd + n_safekeepers
    /\ streaming = TRUE
    /\ server = ServerFd
    /\ n_votes = n_safekeepers /\ n_connected = n_safekeepers
    /\ maxNodeId = [term |-> 1, uuid |-> 0]
    /\ pc = "queue"
    /\ openFds = readSet
    /\ skLsn = [i \in Peers |-> 0]
    /\ skNode = [i \in Peers |-> [term |-> 0, uuid |-> 0]]
    /\ primaryPos = 0 /\ nStreamed = 0 /\ faults = 0
    /\ fbLog = <<>> /\ proposals = {} /\ handshaken = Peers
    /\ startRepl = <<0>> /\ resetInSend = {}
    /\ handed = [i \in Peers |-> 0]
    /\ probe = [frames |-> 0, last |-> "none"]
    /\ NoSender
    /\ msgQueueHead = 0 /\ msgQueueTail = 0
    /\ msgHeap = [a \in Nodes |-> Unallocated]

queueRest == <<n_safekeepers, quorum, serverInfo, sock, asyncOffs, ackPos, info,
               currMsg, lastAckPos, writeSet, maxFds, n_votes, n_connected,
               maxNodeId, skLsn, skNode, faults, histVars, senderVars, registryVars>>

\* the primary's connection
primaryConn == <<streaming, server, readSet, openFds>>

InstallQueue(q) ==
    /\ msgQueueHead' = q.head
    /\ msgQueueTail' = q.tail
    /\ msgHeap' = q.heap

\* a 'w' record from the primary: it is appended and handed to every idle
\* safekeeper
QueueData ==
    /\ pc = "queue" /\ streaming /\ probe.frames < MaxFrames
    /\ \E msg \in Nodes :
          /\ msgHeap[msg] = Unallocated
          /\ LET m == [walPos |-> primaryPos, size |-> XLOG_HDR_SIZE + BodySize,
                       ackMask |-> 0]
             IN  /\ InstallQueue(AppendMsg(Queue, msg, m))
                 /\ msgQueue' = Append(msgQueue, m)
    /\ state' = [i \in Peers |-> IF state[i] = "SS_IDLE" THEN "SS_RECV_ACK"
                                 ELSE state[i]]
    /\ primaryPos' = primaryPos + BodySize
    /\ nStreamed' = nStreamed + 1
    /\ probe' = [frames |-> probe.frames + 1, last |-> "w"]
    /\ UNCHANGED <<queueRest, primaryConn, pc>>

\* a 'k' record from the primary: `pfree(copybuf)`
QueueKeepalive ==
    /\ pc = "queue" /\ streaming /\ probe.frames < MaxFrames
    /\ probe' = [frames |-> probe.frames + 1, last |-> "k"]
    /\ UNCHANGED <<queueRest, queueVars, msgQueue, state, primaryPos, nStreamed,
                   primaryConn, pc>>

\* case SS_RECV_ACK with the response complete: the bit of safekeeper i is
\* set in what safekeeper[i].currMsg reaches, then HandleSafekeeperResponse
\* either returns false before the cleanup (fbOk false) or cleans up.  The
\* acknowledged positions are not followed here: whether feedback is due
\* and fails is the choice fbOk.
QueueAck(i, target, fbOk) ==
    /\ pc = "queue" /\ state[i] = "SS_RECV_ACK"
    /\ target \in Deref(Cur)
    /\ IF target.to = "crash"
       THEN /\ pc' = "crash"
            /\ UNCHANGED <<queueVars, msgQueue, state, primaryConn>>
       ELSE LET chain == Messages(msgHeap, msgQueueHead, MaxNodes + 1)
                full == FullMask(Cur)
                h1 == IF target.to = "stray" THEN msgHeap
                      ELSE [msgHeap EXCEPT ![chain[target.at]].ackMask = OrBit(@, i)]
                s1 == IF target.to = "stray" THEN msgQueue
                      ELSE [msgQueue EXCEPT ![target.at].ackMask = OrBit(@, i)]
                q1 == [Queue EXCEPT !.heap = h1]
            IN  /\ state' = [state EXCEPT ![i] = "SS_IDLE"]
                /\ InstallQueue(IF fbOk THEN CleanupMsgQueue(q1, full) ELSE q1)
                /\ msgQueue' = IF fbOk THEN Cleanup(s1, full) ELSE s1
                /\ IF fbOk THEN UNCHANGED primaryConn
                   ELSE /\ readSet' = readSet \ {server}
                        /\ openFds' = openFds \ {server}
                        /\ server' = PGINVALID_SOCKET
                        /\ streaming' = FALSE
                /\ pc' = pc
    /\ probe' = [probe EXCEPT !.last = "ack"]
    /\ UNCHANGED <<queueRest, primaryPos, nStreamed>>

QueueNext ==
    \/ QueueData
    \/ QueueKeepalive
    \/ \E i \in Peers : \E target \in Deref(Cur) : \E fbOk \in BOOLEAN :
          QueueAck(i, target, fbOk)

QueueSpec == QueueInit /\ [][QueueNext]_vars

----------------------------------------------------------------------------
(* The arithmetic of ackMask on its own.  `1 << i` and                     *)
(* `(1 << n_safekeepers) - 1` are computed in int, whatever the type of    *)
(* ackMask: an int is kept here as the set of its bits that are 1.  A      *)
(* shift by the width of int or more is undefined: the processor either    *)
(* uses the count modulo the width (x86) or gives 0 (ARM), and which of    *)
(* the two the build does is chosen once, in probe.shift.  ackMask is      *)
(* taken to be an int, as its uses suggest.                                *)

\* bits of an int
IntBits == 32
\* the size of the array safekeeper[]; the definition is in safekeeper.h
MAX_SAFEKEEPERS == 64
\* numbers of safekeepers tried
MaskNs == {1, 2, 3, 30, 31, 32, 33, 63, 64}

\* main(): `if (n_safekeepers+1 >= MAX_SAFEKEEPERS)` before each host is
\* stored: the lists of n hosts that are accepted
Accepted(n) == n >= 1 /\ \A k \in 0 .. (n - 1) : ~(k + 1 >= MAX_SAFEKEEPERS)

\* `1 << k`
Shl1(k, shift) ==
    IF k < IntBits THEN {k}
    ELSE IF shift = "masked" THEN {k % IntBits} ELSE {}

\* `x - 1` for x = 0 or a power of two, with wrap-around
MinusOne(x) == IF x = {} THEN 0 .. (IntBits - 1) ELSE {b \in 0 .. (IntBits - 1) : \A c \in x : b < c}

\* `(1 << n_safekeepers) - 1`
FullMaskInt(n, shift) == MinusOne(Shl1(n, shift))

\* `ackMask |= 1 << i`
OrBitInt(mask, i, shift) == mask \cup Shl1(i, shift)

\* one record is queued and has been written to every safekeeper
MaskInit ==
    /\ n_safekeepers \in {n \in MaskNs : Accepted(n)}
    /\ quorum = (n_safekeepers \div 2) + 1
    /\ serverInfo = [walEnd |-> 0, walSegSize |-> 16]
    /\ state = [i \in Peers |-> "SS_RECV_ACK"]
    /\ sock = [i \in Peers |-> ServerFd + 1 + i]
    /\ asyncOffs = [i \in Peers |-> 0]
    /\ ackPos = [i \in Peers |-> 0]
    /\ info = [i \in Peers |-> [term |-> 0, uuid |-> 0]]
    /\ currMsg = [i \in Peers |-> 0]
    /\ msgQueue = <<[walPos |-> 0, size |-> XLOG_HDR_SIZE + BodySize, ackMask |-> 0]>>
    /\ lastAckPos = 0
    /\ readSet = {ServerFd} \cup {sock[i] : i \in Peers} /\ writeSet = {}
    /\ maxFds = ServerFd + n_safekeepers
    /\ streaming = TRUE
    /\ server = ServerFd
    /\ n_votes = n_safekeepers /\ n_connected = n_safekeepers
    /\ maxNodeId = [term |-> 1, uuid |-> 0]
    /\ pc = "mask"
    /\ openFds = readSet
    /\ skLsn = [i \in Peers |-> BodySize]
    /\ skNode = [i \in Peers |-> [term |-> 0, uuid |-> 0]]
    /\ primaryPos = BodySize /\ nStreamed = 1 /\ faults = 0
    /\ fbLog = <<>> /\ proposals = {} /\ handshaken = Peers
    /\ startRepl = <<0>> /\ resetInSend = {}
    /\ handed = [i \in Peers |-> 0]
    /\ probe \in [shift : {"masked", "zero"}, ackMask : {{}}, acked : {{}},
                  freed : {FALSE}]
    /\ NoSender
    /\ NoQueue

\* the safekeepers that have not acknowledged the record
Unacked == Peers \ probe.acked

\* The acknowledgement of safekeeper i is complete: its bit is set in the
\* record's ackMask and the cleanup of HandleSafekeeperResponse compares
\* the mask.  The acknowledgements come from the lowest or the highest
\* safekeeper that has not answered.
MaskAck(i) ==
    /\ pc = "mask" /\ ~probe.freed
    /\ i \in Unacked
    /\ \/ \A j \in Unacked : i <= j
       \/ \A j \in Unacked : i >= j
    /\ LET mask == OrBitInt(probe.ackMask, i, probe.shift) IN
       probe' = [probe EXCEPT !.ackMask = mask,
                              !.acked = @ \cup {i},
                              !.freed = (mask = FullMaskInt(n_safekeepers, probe.shift))]
    /\ UNCHANGED <<progVars, envVars, histVars, senderVars, registryVars, queueVars>>

MaskNext == \E i \in Peers : MaskAck(i)

MaskSpec == MaskInit /\ [][MaskNext]_vars

----------------------------------------------------------------------------
(* Properties                                                              *)

\* the safekeepers whose acknowledged position, after the step, is at
\* least lsn
AckedAfter(lsn) == {i \in Peers : ackPos'[i] >= lsn}

\* C1: whenever feedback with position x is sent to the primary, at least
\* quorum safekeepers have ackPos >= x at that moment, for every quorum that
\* main() accepts.
C1_FeedbackAckedByQuorum ==
    [][Len(fbLog') > Len(fbLog) =>
          Cardinality(AckedAfter(fbLog'[Len(fbLog')])) >= quorum]_vars

\* C2: every feedback sent carries the value GetAcknowledgedWALPosition()
\* has at the time of sending, and that value is greater than every
\* position reported before.
C2_FeedbackIncreasing ==
    [][Len(fbLog') > Len(fbLog) =>
          /\ Len(fbLog') = Len(fbLog) + 1
          /\ fbLog'[Len(fbLog')] = GetAcknowledgedWALPosition(Cur')
          /\ \A k \in 1 .. Len(fbLog) :
                /\ fbLog'[k] = fbLog[k]
                /\ fbLog[k] < fbLog'[Len(fbLog')]]_vars

\* C2, its case: two feedback messages have been sent
C2_TwoFeedbacks == Len(fbLog) >= 2

\* C3: from one state of the event loop to the next, the value of
\* GetAcknowledgedWALPosition() never decreases (the safekeepers report
\* positions that never decrease).
C3_QuorumLsnMonotonic ==
    [][GetAcknowledgedWALPosition(Cur') >= GetAcknowledgedWALPosition(Cur)]_vars

\* the places of the queue whose messages the step removes
Pruned ==
    IF Len(msgQueue') < Len(msgQueue)
    THEN 1 .. (Len(msgQueue) - Len(msgQueue')) ELSE {}

\* C4: when a message is removed from the queue, at least quorum
\* safekeepers have ackPos >= the walEnd of the message.
C4_PrunedAckedByQuorum ==
    [][\A k \in Pruned :
          Cardinality(AckedAfter(WalEnd(msgQueue[k]))) >= quorum]_vars

\* the k-th largest of the acknowledged positions, counted with repetitions
KthLargest(k) ==
    CHOOSE v \in {ackPos[i] : i \in Peers} :
        /\ Cardinality({i \in Peers : ackPos[i] > v}) < k
        /\ Cardinality({i \in Peers : ackPos[i] >= v}) >= k

\* C5: GetAcknowledgedWALPosition() is the (n_safekeepers - quorum + 1)-th
\* largest element of the ackPos vector, with ties and zeros.
C5_QuorumLsnIsKthLargest ==
    probe.done => probe.value = KthLargest((n_safekeepers - quorum) + 1)

\* C5, its case: the function has been called on four positions, two of
\* them equal, one of them zero and one not, with a quorum below
\* n_safekeepers
C5_CalledWithTiesAndZeros ==
    /\ probe.done /\ n_safekeepers = MaxVector /\ quorum < n_safekeepers
    /\ \E i, j \in Peers : i # j /\ ackPos[i] = ackPos[j] /\ ackPos[i] > 0
    /\ \E i \in Peers : ackPos[i] = 0
    /\ probe.value > 0

\* C6: while fewer than quorum distinct safekeepers have completed the
\* handshake, no proposal has been sent, replication has not been started
\* and the primary's descriptor is not in the read set.
C6_NothingBeforeQuorum ==
    Cardinality(handshaken) < quorum =>
        /\ proposals = {}
        /\ startRepl = <<>>
        /\ server \notin readSet

\* C6, its case: a safekeeper has completed the handshake and waits in
\* SS_VOTE because the quorum is not yet there
C6_WaitingForQuorum ==
    /\ handshaken # {} /\ Cardinality(handshaken) < quorum
    /\ \E i \in Peers : state[i] = "SS_VOTE"

\* C7: a safekeeper leaves SS_WAIT_VERDICT for SS_IDLE only if the NodeId
\* it echoed is identical, in term and in uuid, to the maxNodeId proposed.
C7_IdleOnlyOnIdenticalEcho ==
    [][\A i \in Peers :
          (state[i] = "SS_WAIT_VERDICT" /\ state'[i] = "SS_IDLE")
              => info'[i] = maxNodeId']_vars

\* C8: the proposed epoch is fixed once: every proposal sent to a
\* safekeeper carries the same NodeId as the first one.
C8_OneProposal == Cardinality({x.id : x \in proposals}) <= 1

\* a step in which the proxy finds the connection of safekeeper i closed or
\* reset
ConnectionLost(i) == ReadError(i) \/ ReadEof(i) \/ UnexpectedRead(i)

\* C9: when a safekeeper closes or resets its connection, in any state,
\* the proxy goes on running and touches no other safekeeper.
C9_LossResetsOnlyThatPeer ==
    [][\A i \in Peers :
          ConnectionLost(i) =>
              /\ pc' = "loop"
              /\ \A j \in Peers \ {i} :
                    /\ state'[j] = state[j] /\ sock'[j] = sock[j]
                    /\ ackPos'[j] = ackPos[j]]_vars

\* safekeeper i was reset part-way through a record, has replayed the
\* handshake and the vote, and has not acknowledged every queued message
Owed(i) ==
    /\ i \in Peers /\ i \in resetInSend /\ pc = "loop"
    /\ state[i] = "SS_IDLE"
    /\ \E k \in 1 .. Len(msgQueue) : ~HasBit(msgQueue[k].ackMask, i)

\* the proxy waits in select() and nothing is left that could make a
\* descriptor ready: the run ends here
AtRest == ~ENABLED Next

\* C10: a safekeeper whose connection failed part-way through a record is
\* reset, replays the handshake and the vote, and is then sent again every
\* queued message it has not acknowledged: the run never ends with such a
\* safekeeper idle and a queued message it has not acknowledged.
C10_QueuedMessagesResent == \A i \in Peers : Owed(i) => ~AtRest

\* the step completes the answer of safekeeper i, and the answer is recorded
\* for the record that was written to it
AckRecorded(i) ==
    /\ state[i] = "SS_RECV_ACK" /\ state'[i] = "SS_IDLE" /\ pc' = "loop"
    /\ \A k \in 1 .. Len(msgQueue') :
          msgQueue'[k].walPos = handed[i] => HasBit(msgQueue'[k].ackMask, i)

\* C11: a safekeeper that returns to SS_IDLE after its answer while the
\* queue holds records it has not acknowledged is handed the oldest of
\* them: it is not left idle with such a record queued.
C11_IdlePeerHandedNext ==
    [][\A i \in Peers :
          AckRecorded(i) =>
              \A k \in 1 .. Len(msgQueue') : HasBit(msgQueue'[k].ackMask, i)]_vars

\* C12: a safekeeper in SS_SEND_WAL or SS_RECV_ACK has a currMsg, which is
\* the record whose bytes were written to it and which is still queued.
C12_CurrMsgIsRecordInFlight ==
    \A i \in Peers :
        state[i] \in {"SS_SEND_WAL", "SS_RECV_ACK"} =>
            /\ currMsg[i] # 0
            /\ currMsg[i] = handed[i]
            /\ \E k \in 1 .. Len(msgQueue) : msgQueue[k].walPos = currMsg[i]

\* every safekeeper is connected and idle, and the answer of each is
\* recorded for every queued record that was written to it
AllAnswered ==
    /\ \A i \in Peers : state[i] = "SS_IDLE"
    /\ \A i \in Peers : \A k \in 1 .. Len(msgQueue) :
          WalEnd(msgQueue[k]) <= skLsn[i] => HasBit(msgQueue[k].ackMask, i)

\* C13: after the primary's stream has ended, with safekeepers that
\* acknowledge all they are sent, the queue drains and the loop exits: a run
\* without any I/O error never ends inside the loop with a record still
\* queued.
C13_QueueDrainsAfterStreamEnd ==
    (pc = "loop" /\ ~streaming /\ msgQueue # <<>> /\ AllAnswered /\ faults = 0)
        => ~AtRest

\* C14: the event loop is left only when the primary's stream has ended and
\* the queue is empty, so StopSafekeepers never runs with a record pending.
C14_StopsWithNothingPending ==
    pc = "done" => (~streaming /\ msgQueue = <<>>)

\* C15: when the acknowledgement of safekeeper i is complete and is recorded
\* on the record that was written to it, every record still queued that ends
\* at or before the reported position carries bit i, and the record at the
\* head of the queue is not acknowledged by all.
C15_AckMarksAllCovered ==
    [][\A i \in Peers :
          AckRecorded(i) =>
              /\ \A k \in 1 .. Len(msgQueue') :
                    WalEnd(msgQueue'[k]) <= ackPos'[i] =>
                        HasBit(msgQueue'[k].ackMask, i)
              /\ msgQueue' # <<>> => Head(msgQueue').ackMask # FullMask(Cur')]_vars

\* the safekeepers whose connection is down or not yet past the vote
Unvoted == {i \in Peers : state[i] \in {"SS_OFFLINE", "SS_CONNECTING",
                                         "SS_HANDSHAKE", "SS_VOTE",
                                         "SS_WAIT_VERDICT"}}

\* C16: the bits of the ackMask of a record only grow while the record is
\* queued, whatever happens to the connections: no step clears a bit.
C16_AckMaskOnlyGrows ==
    [][\A k \in 1 .. Len(msgQueue) : \A j \in 1 .. Len(msgQueue') :
          msgQueue'[j].walPos = msgQueue[k].walPos =>
              \A b \in 0 .. (MaxSafekeepers - 1) :
                  HasBit(msgQueue[k].ackMask, b) => HasBit(msgQueue'[j].ackMask, b)]_vars

\* a queued record is acknowledged by a safekeeper whose connection was
\* reset afterwards, and by another one as well
C16_AckedThenReset ==
    \E k \in 1 .. Len(msgQueue) : \E i \in Unvoted : \E j \in Peers \ {i} :
        /\ HasBit(msgQueue[k].ackMask, i)
        /\ HasBit(msgQueue[k].ackMask, j)

\* the asyncOffs of safekeeper i is within the length its state transfers:
\* the handshake reads a SafekeeperInfo, the verdict a NodeId, the
\* acknowledgement an LSN, and SS_SEND_WAL writes the record handed over.
\* SS_CONNECTING and SS_VOTE transfer nothing; there asyncOffs is what the
\* state before left.
OffsInRange(i) ==
    /\ asyncOffs[i] >= 0
    /\ state[i] = "SS_HANDSHAKE" => asyncOffs[i] <= SizeofSafekeeperInfo
    /\ state[i] = "SS_WAIT_VERDICT" => asyncOffs[i] <= SizeofNodeId
    /\ state[i] = "SS_RECV_ACK" => asyncOffs[i] <= SizeofLsn
    /\ state[i] = "SS_SEND_WAL" =>
          \A k \in 1 .. Len(msgQueue) :
              msgQueue[k].walPos = handed[i] => asyncOffs[i] <= msgQueue[k].size

C18_StartIsMaxRoundedDown ==
    (pc = "start" /\ probe.done) =>
        LET s == Max(GetAcknowledgedWALPosition(Cur), serverInfo.walEnd)
        IN  probe.value = s - (s % serverInfo.walSegSize)

\* a frame is written to the client
FrameSent == senderPc = "send" /\ senderPc' = "wait"

\* C19: the frames sent to one client are contiguous and in increasing
\* order: the first starts at the position asked for, rounded down to the
\* start of its segment, each later one where the one before ended, and
\* every frame carries at least one byte.
C19_FramesContiguous ==
    [][FrameSent =>
          /\ lastFrame'.len > 0
          /\ lastFrame'.dataStart =
                IF lastFrame.sent
                THEN lastFrame.dataStart + lastFrame.len
                ELSE request - (request % walSender.walSegSize)]_vars

\* flushLsn lies beyond the end of the segment that holds startpos
BeyondSegment ==
    flushLsn > (XLByteToSeg(startpos, walSender.walSegSize) + 1) * walSender.walSegSize

\* C20: with flushLsn beyond the end of the segment of startpos, no frame
\* spans the end of a segment, the file is closed exactly when startpos
\* reaches the end of the segment, and the thread does not exit on reading,
\* from any offset in the segment.
C20_SegmentEndCrossed ==
    [][/\ (FrameSent /\ lastFrame'.len > 0) =>
             XLByteToSeg(lastFrame'.dataStart, walSender.walSegSize)
                = XLByteToSeg(startpos' - 1, walSender.walSegSize)
       /\ FrameSent =>
             (walfile' = -1 <=> XLogSegmentOffset(startpos', walSender.walSegSize) = 0)
       /\ (senderPc = "read" /\ BeyondSegment) => senderPc' # "exited"]_vars

\* the WalSenders reached from &walSenders along next, in at most n steps
RECURSIVE Chain(_, _, _)
Chain(L, from, n) ==
    IF n = 0 \/ L.next[from] = 0 \/ L.next[from] = Freed THEN {}
    ELSE {L.next[from]} \cup Chain(L, L.next[from], n - 1)

Registered(L) == Chain(L, 0, MaxSenders + 1)

\* a thread that runs WalSenderMain
Running(t) == thread[t].pc \notin {"none", "nothread", "exited"}

\* C21: when StopWalSenders returns, every thread that StartWalSender
\* started has returned and the list is empty.
C21_StopJoinsEveryThread ==
    [][(stopper.pc # "returned" /\ stopper'.pc = "returned") =>
          /\ \A t \in Senders : ~Running(t)
          /\ walSenders'.next[0] = 0]_vars

\* the list is a ring through &walSenders: next and prev are inverse along
\* it, and it holds no freed WalSender
WellFormed(L) ==
    LET ring == Registered(L) \cup {0} IN
    /\ \A x \in ring : L.next[x] \in ring /\ L.prev[L.next[x]] = x
    /\ \A x \in ring : L.prev[x] \in ring /\ L.next[L.prev[x]] = x

\* thread t returns in this step
Returns(t) == thread[t].pc # "exited" /\ thread'[t].pc = "exited"

\* C22: a thread that returns, on whatever path, has closed its segment
\* file and its socket and has taken itself, and nothing else, out of the
\* list, which stays well-formed.
C22_ExitCleansUp ==
    [][\A t \in Senders : Returns(t) =>
          /\ thread'[t].walfile = -1 /\ ~thread'[t].sock
          /\ t \in Registered(walSenders)
          /\ Registered(walSenders') = Registered(walSenders) \ {t}
          /\ WellFormed(walSenders')]_vars

\* threads have returned on a short read, on a failed write and on
\* shutdown, and the list is empty again
C22_ExitedOnEveryPath ==
    /\ {thread[t].why : t \in Senders} = {"read", "shutdown", "write"}
    /\ Registered(walSenders) = {}

\* the last byte of safekeeper i's handshake reply arrives, and the reply
\* carries a protocol version other than SK_PROTOCOL_VERSION
BadVersion(i) ==
    /\ PeerReady(i) /\ state[i] = "SS_HANDSHAKE"
    /\ \E plan \in Plans(Budget) :
          LET reply == [protocolVersion |-> SK_PROTOCOL_VERSION + 1,
                        nodeId |-> skNode[i], walEnd |-> skLsn[i]]
              p0 == [Cur EXCEPT !.asyncOffs[i] = SizeofSafekeeperInfo]
              ws == [j \in Peers |-> [ok |-> TRUE, plan |-> NoPlan]]
          IN  /\ 1 + PlanCost(plan) <= Budget
              /\ Cur' = Charge(HandshakeDone(p0, i, reply, plan, ws),
                               1 + PlanCost(plan))

\* C23: a safekeeper whose handshake reply has another protocol version is
\* reset: it does not come to SS_VOTE, it is not counted in n_connected,
\* what it reported changes neither maxNodeId nor any ackPos, and the proxy
\* does not exit.
C23_BadVersionIsReset ==
    [][\A i \in Peers : BadVersion(i) =>
          /\ state'[i] \in {"SS_OFFLINE", "SS_CONNECTING", "SS_HANDSHAKE"}
          /\ n_connected' = n_connected
          /\ handshaken' = handshaken
          /\ maxNodeId' = maxNodeId
          /\ ackPos' = ackPos
          /\ pc' = "loop"]_vars

\* a safekeeper with a term above maxNodeId's has answered with another
\* protocol version: its NodeId was read into info, and the handshake did
\* not complete
C23_BadVersionSeen ==
    \E i \in Peers :
        /\ i \notin handshaken /\ n_connected = 0
        /\ info[i] = skNode[i] /\ CompareNodeId(info[i], maxNodeId) > 0

\* an acknowledgement is complete and the feedback it causes is refused by
\* the primary, which was still streaming
FeedbackFails ==
    /\ streaming /\ ~streaming'
    /\ \E i \in Peers : state[i] = "SS_RECV_ACK" /\ state'[i] = "SS_IDLE"

\* C24: when the feedback to the primary fails, the proxy stops reading
\* from the primary and stays in the loop, and the records acknowledged by
\* all are removed from the queue in that very step.
C24_PrunesWhenFeedbackFails ==
    [][FeedbackFails =>
          /\ server' \notin readSet' /\ pc' = "loop"
          /\ msgQueue' # <<>> => Head(msgQueue').ackMask # FullMask(Cur')]_vars

Sign(x) == IF x < 0 THEN -1 ELSE IF x > 0 THEN 1 ELSE 0

\* C25: CompareNodeId orders NodeIds by term and then by uuid: it gives 0
\* exactly for equal term and equal uuid, and exchanging the arguments
\* changes the sign of the result.
C25_CompareNodeIdIsOrder ==
    (pc = "compare" /\ probe.done) =>
        /\ probe.value.ab = 0 <=> info[0] = maxNodeId
        /\ Sign(probe.value.ab) = 0 - Sign(probe.value.ba)

\* the descriptors select() is asked about, the primary's apart
PeerInterest == (readSet \cup writeSet) \ {server}

\* C26: a safekeeper left by ResetConnection is in SS_HANDSHAKE or
\* SS_CONNECTING with an open socket that is in the read set, or in
\* SS_OFFLINE without a socket; and every descriptor in the read or write
\* set is open and is the socket of a safekeeper.
C26_ResetLeavesConsistent ==
    pc = "loop" =>
        /\ \A i \in Peers :
              /\ state[i] \in {"SS_HANDSHAKE", "SS_CONNECTING"} =>
                    sock[i] \in openFds /\ sock[i] \in readSet
              /\ state[i] = "SS_OFFLINE" => sock[i] = PGINVALID_SOCKET
        /\ \A fd \in PeerInterest :
              fd \in openFds /\ \E i \in Peers : sock[i] = fd

\* C27: a safekeeper in SS_OFFLINE is connected to again on a later turn of
\* the loop: the run never ends inside the loop, waiting in select(), with
\* a safekeeper still in SS_OFFLINE.
C27_OfflineIsLeft ==
    \A i \in Peers : (pc = "loop" /\ state[i] = "SS_OFFLINE") => ~AtRest

\* the socket of safekeeper i is in the write set exactly in SS_SEND_WAL
WriteInterest(i) ==
    (sock[i] # PGINVALID_SOCKET /\ sock[i] \in writeSet) <=> state[i] = "SS_SEND_WAL"

\* the socket of safekeeper i is in the read set whenever there is one
ReadInterest(i) == sock[i] # PGINVALID_SOCKET => sock[i] \in readSet

\* the primary's socket is in the read set only while it streams
ServerInterest == server \in readSet => (startRepl # <<>> /\ streaming)

\* C28: inside the loop, a safekeeper's socket is in the write set exactly
\* when the safekeeper is in SS_SEND_WAL and in the read set whenever it has
\* a socket, and the primary's socket is in the read set only between the
\* start of replication and the end of the stream.
C28_InterestSetsMatchStates ==
    pc = "loop" =>
        /\ \A i \in Peers : WriteInterest(i) /\ ReadInterest(i)
        /\ ServerInterest

\* the WalMessages of the queue, as reached from msgQueueHead
Reachable == Messages(msgHeap, msgQueueHead, MaxNodes + 1)

\* head, tail and the chain between them agree, and the chain is the
\* sequence msgQueue
QueueWellFormed ==
    /\ (msgQueueHead = 0) = (msgQueueTail = 0)
    /\ (msgQueueHead = 0) = (Reachable = <<>>)
    /\ Len(Reachable) <= MaxNodes
    /\ Reachable # <<>> =>
          /\ Reachable[Len(Reachable)] = msgQueueTail
          /\ msgHeap[msgQueueTail].next = 0
    /\ \A k \in 1 .. (Len(Reachable) - 1) :
          msgHeap[Reachable[k]].walPos < msgHeap[Reachable[k + 1]].walPos
    /\ msgQueue = [k \in 1 .. Len(Reachable) |->
                     [walPos |-> msgHeap[Reachable[k]].walPos,
                      size |-> msgHeap[Reachable[k]].size,
                      ackMask |-> msgHeap[Reachable[k]].ackMask]]

\* C29: the message queue is always well-formed (head is null exactly when
\* tail is null and when the queue is empty, tail is the last message
\* reached from head, walPos increases along the chain), and a keepalive
\* frame changes neither the queue nor the state of any safekeeper.
C29_QueueWellFormed ==
    /\ []QueueWellFormed
    /\ [][probe'.last = "k" => UNCHANGED <<queueVars, msgQueue, state>>]_vars

\* C29: a keepalive has arrived while two records were queued, after an
\* earlier record was pruned.
C29_KeepaliveWithQueue ==
    /\ pc = "queue" /\ probe.last = "k"
    /\ Len(Reachable) = 2 /\ nStreamed >= 3
    /\ \E a \in Nodes : msgHeap[a] = Unallocated

\* the highest of a set of NodeIds: by term, then by uuid
Highest(S) ==
    CHOOSE x \in S : \A y \in S :
        y.term < x.term \/ (y.term = x.term /\ y.uuid <= x.uuid)

\* the NodeIds reported by the safekeepers that completed the handshake
Reported == {info[j] : j \in handshaken}

\* C30: the term proposed when the quorum forms is the term of the highest
\* NodeId reported by the safekeepers that completed the handshake,
\* incremented by 1, whatever maxNodeId held before; and the term of every
\* proposal is greater than the term reported by the safekeeper it is sent
\* to.
C30_ProposalIsHighestPlusOne ==
    [][\A x \in proposals' \ proposals :
          /\ (n_connected < quorum /\ n_connected' = quorum) =>
                x.id.term = Highest(Reported').term + 1
          /\ x.id.term > info'[x.to].term]_vars

\* the safekeepers that, after the step, are idle and have echoed a NodeId
\* with the term of the epoch in maxNodeId
Voters == {i \in Peers : state'[i] = "SS_IDLE" /\ info'[i].term = maxNodeId'.term}

\* C31: START_REPLICATION is issued at most once, and when it is issued at
\* least quorum distinct safekeepers are in SS_IDLE and have echoed the
\* term of the proposed epoch.
C31_StartedOnceByQuorum ==
    [][Len(startRepl') > Len(startRepl) =>
          /\ Len(startRepl') = 1
          /\ Cardinality(Voters) >= quorum]_vars

\* C32: input and output in fragments end as they would in one piece: when
\* the last byte of a record written to safekeeper i has gone out, the
\* safekeeper holds exactly the record that was handed to it; when the last
\* byte of an acknowledgement or of an echoed NodeId has come in, the value
\* stored is the value the safekeeper sent; and no transition happens
\* before the expected length has accumulated.  Steps that end the process
\* are left aside.
C32_FragmentsGiveSameOutcome ==
    [][pc' = "loop" => \A i \in Peers :
          /\ (state[i] = "SS_SEND_WAL" /\ state'[i] = "SS_RECV_ACK") =>
                skLsn'[i] = Max(skLsn[i], handed[i] + BodySize)
          /\ (state[i] = "SS_RECV_ACK" /\ state'[i] = "SS_IDLE") =>
                (ackPos'[i] = skLsn[i] /\ asyncOffs'[i] = 0)
          /\ (state[i] = "SS_WAIT_VERDICT" /\ state'[i] = "SS_IDLE") =>
                info'[i] = skNode[i]
          /\ (state[i] = "SS_RECV_ACK" /\ state'[i] = "SS_RECV_ACK"
                /\ asyncOffs'[i] > asyncOffs[i]) => asyncOffs'[i] < SizeofLsn
          /\ (state[i] = "SS_SEND_WAL" /\ state'[i] = "SS_SEND_WAL"
                /\ asyncOffs'[i] > asyncOffs[i]) =>
                asyncOffs'[i] < XLOG_HDR_SIZE + BodySize]_vars

\* the positions safekeeper a can have sent completely while the
\* acknowledgement of the record handed to it is still on its way: what it
\* started with, and the ends of the records before that one
CompletelyReceived(a) ==
    InitLsns \cup {e \in {startRepl[1] + k * BodySize : k \in 1 .. MaxMsgs} :
                      e <= handed[a]}

\* C33: when the acknowledgement of safekeeper b is complete and the
\* position acknowledged by the quorum is computed, the ackPos of every
\* other safekeeper whose acknowledgement has arrived in part only is a
\* position completely received from it.
C33_QuorumSeesCompleteAcks ==
    [][\A b \in Peers :
          (state[b] = "SS_RECV_ACK" /\ state'[b] = "SS_IDLE") =>
             \A a \in Peers \ {b} :
                (/\ state[a] = "SS_RECV_ACK"
                 /\ asyncOffs[a] \in 1 .. (SizeofLsn - 1)) =>
                    ackPos[a] \in CompletelyReceived(a)]_vars

\* a thread in pthread_cond_wait has nothing to send and is not told to stop
NoLostWakeup == senderPc = "asleep" => (startpos >= flushLsn /\ senderStreaming)

\* a frame is written only with flushLsn beyond startpos
FrameHasData == FrameSent => flushLsn > startpos

\* C34 as stated: a thread emits no frame while flushLsn <= startpos, it is
\* never left in the condition wait when flushLsn > startpos or when
\* StopWalSenders has been called, and after StopWalSenders has set
\* `streaming` to false it emits no further frame.
C34_NoFrameAfterStop ==
    /\ []NoLostWakeup
    /\ [][FrameHasData /\ (FrameSent => senderStreaming)]_vars

\* C34, amended: a thread emits no frame while flushLsn <= startpos, it is
\* never left in the condition wait when flushLsn > startpos or when
\* StopWalSenders has been called, and once `streaming` is false it does
\* not get past the wait again: it emits at most the frame it had begun
\* before the call, and exits.
C34_StopsAtNextWait ==
    /\ []NoLostWakeup
    /\ [][/\ FrameHasData
          /\ (~senderStreaming /\ senderPc \in {"wait", "asleep"}) =>
                senderPc' \in {"wait", "exited"}]_vars

\* C34: StopWalSenders was called after the thread had sent a frame and
\* passed the wait again: it is building one more frame.
C34_FrameBegunBeforeStop ==
    /\ senderPc = "send" /\ ~senderStreaming
    /\ lastFrame.sent /\ lastFrame.dataStart + lastFrame.len = startpos

\* C35: every frame is what a single reading of flushLsn gives: its length
\* is the one computed from the flushLsn in its walEnd field, and it ends at
\* or before that position, whatever NotifyWalSenders does meanwhile.
C35_FrameFromOneObservation ==
    [][FrameSent =>
          /\ lastFrame'.len =
                Min(Uint32(lastFrame'.walEnd - lastFrame'.dataStart), MAX_SEND_SIZE)
          /\ lastFrame'.dataStart + lastFrame'.len <= lastFrame'.walEnd]_vars

\* C36: whenever sendSize is computed with flushLsn > startpos, it is the
\* smaller of flushLsn - startpos and MAX_SEND_SIZE, and so more than 0,
\* also when the difference does not fit 32 bits.
C36_SendSizeIsMin ==
    [][(senderPc = "read" /\ senderPc' # senderPc /\ flushLsn > startpos) =>
          /\ sendSize' = Min(flushLsn - startpos, MAX_SEND_SIZE)
          /\ sendSize' > 0]_vars

\* C37: for every number of safekeepers that is accepted, a record is
\* taken as fully acknowledged exactly when every safekeeper has
\* acknowledged it.
C37_FullMaskIsAllPeers ==
    (pc = "mask" /\ probe.acked # {}) => (probe.freed <=> probe.acked = Peers)

\* thread t leaves because its segment file is missing or read() gave
\* fewer bytes than asked for
FailsOnFile(t) == Returns(t) /\ thread'[t].why \in {"open", "read"}

\* C38: when a thread cannot open its segment file, or reads fewer than
\* sendSize bytes from it, that thread returns and nothing else changes:
\* it has sent no frame for the read, its startpos has not advanced,
\* flushLsn and streaming are as they were, and every other thread is
\* where it was and stays in the list.
C38_FileFailureEndsOnlyThatThread ==
    [][\A t \in Senders : FailsOnFile(t) =>
          /\ thread'[t].frames = thread[t].frames
          /\ thread'[t].pos = thread[t].pos
          /\ thread'[t].pos = thread'[t].frames
          /\ flushLsn' = flushLsn
          /\ senderStreaming' = senderStreaming
          /\ \A u \in Senders \ {t} : thread'[u] = thread[u]
          /\ Registered(walSenders') = Registered(walSenders) \ {t}
          /\ stopper' = stopper]_vars

\* a thread that had sent a frame has returned on a short read and
\* another on a missing file, while a third is still sending and
\* streaming is on
C38_OneFailedOthersRun ==
    \E t, u, v \in Senders :
        /\ thread[t].pc = "exited" /\ thread[t].why = "read" /\ thread[t].frames = 1
        /\ thread[u].pc = "exited" /\ thread[u].why = "open"
        /\ thread[v].pc = "send" /\ v \in Registered(walSenders)
        /\ senderStreaming

============================================================================
